---------------------------- MODULE Spec2Model ----------------------------
(***************************************************************************)
(* A model of the Mag analyzer (src/mag/src/analyzer.py) over its SQLite   *)
(* store (src/mag/src/database.py) and of the date-range re-analysis tool  *)
(* (src/mag/src/mag_reanalyze.py).                                         *)
(*                                                                         *)
(* Dates are the integers 1, 2, ...: the source compares ISO date strings  *)
(* (YYYY-MM-DD), whose string order is the calendar order.  Percentages    *)
(* are exact rationals [n, d] (d > 0, lowest terms); the source computes   *)
(* them as Python floats.                                                  *)
(***************************************************************************)
EXTENDS Integers, Sequences, FiniteSets, TLC

(***************************************************************************)
(* Bounds of the model.                                                    *)
(***************************************************************************)
\* Dates of the short histories are 1..MaxDate.
MaxDate == 4

(***************************************************************************)
(* Program constants.                                                      *)
(***************************************************************************)
\* get_coin_history(coin, limit=100)
HistoryLimit == 100
\* the break-index thresholds of the two crossing node types
BreakHigh == 200
BreakLow == 0
\* the off-chain boundary of the phase-transition correction
PhaseBoundary == 1000
\* the phase-transition correction, in percent
PhaseStep == 5

PhaseEnter == "Entry"   \* '进场期'
PhaseExit == "Exit"     \* '退场期'
PhaseTypes == {PhaseEnter, PhaseExit}

NULL == [none |-> TRUE]

(***************************************************************************)
(* Exact rational arithmetic for the float-valued percentages.             *)
(***************************************************************************)
Abs(x) == IF x < 0 THEN -x ELSE x

RECURSIVE GCD(_, _)
GCD(a, b) == IF b = 0 THEN a ELSE GCD(b, a % b)

\* n / d in lowest terms with a positive denominator (d # 0)
Q(n, d) ==
    LET sn == IF d < 0 THEN -n ELSE n
        sd == Abs(d)
        g == GCD(Abs(sn), sd)
    IN  [n |-> sn \div g, d |-> sd \div g]

QInt(i) == [n |-> i, d |-> 1]
QAdd(a, b) == Q(a.n * b.d + b.n * a.d, a.d * b.d)
QNeg(a) == [n |-> -a.n, d |-> a.d]
QLess(a, b) == a.n * b.d < b.n * a.d
QZero == QInt(0)

\* floor(n / d), d # 0
FloorDiv(n, d) == IF d < 0 THEN (-n) \div (-d) ELSE n \div d

\* Python's round() of n / d: to the nearest integer, a tie to the even one.
RoundHalfEven(n, d) ==
    LET sn == IF d < 0 THEN -n ELSE n
        sd == Abs(d)
        f == sn \div sd
        r2 == 2 * (sn - sd * f)
    IN  IF r2 < sd THEN f
        ELSE IF r2 > sd THEN f + 1
        ELSE IF f % 2 = 0 THEN f ELSE f + 1

(***************************************************************************)
(* MagDatabase._interpolate_offchain_index                                 *)
(***************************************************************************)
\* A slip that truncates instead of rounding.
interpolate_truncating(off1, off2, break1, break2, target_break) ==
    IF break1 = break2 THEN off1
    ELSE FloorDiv(off1 * (break2 - break1) + (off2 - off1) * (target_break - break1),
                  break2 - break1)

interpolate_offchain_index(off1, off2, break1, break2, target_break) ==
    IF break1 = break2 THEN off1
    ELSE RoundHalfEven(off1 * (break2 - break1) + (off2 - off1) * (target_break - break1),
                       break2 - break1)

(***************************************************************************)
(* MagAnalyzer._calculate_change_percentage: <<base change, correction>>.  *)
(***************************************************************************)
\* A slip that forgets the sign reversal of the exit phase.
change_percentage_unsigned(ref_index, current_index, phase_type) ==
    IF ref_index = 0 THEN <<QZero, 0>>
    ELSE LET raw_change == Q((current_index - ref_index) * 100, ref_index)
             crosses == \/ (ref_index < PhaseBoundary /\ PhaseBoundary <= current_index)
                        \/ (current_index < PhaseBoundary /\ PhaseBoundary <= ref_index)
             is_upward == current_index > ref_index
         IN  <<raw_change,
               IF ~crosses THEN 0
               ELSE IF is_upward THEN PhaseStep ELSE -PhaseStep>>

\* A slip that tests the boundary with closed ends on both sides.
change_percentage_closed(ref_index, current_index, phase_type) ==
    IF ref_index = 0 THEN <<QZero, 0>>
    ELSE LET raw_change == Q((current_index - ref_index) * 100, ref_index)
             base_change == IF phase_type = PhaseEnter THEN raw_change ELSE QNeg(raw_change)
             crosses == \/ (ref_index <= PhaseBoundary /\ PhaseBoundary <= current_index)
                        \/ (current_index <= PhaseBoundary /\ PhaseBoundary <= ref_index)
             is_upward == current_index > ref_index
         IN  <<base_change,
               IF ~crosses THEN 0
               ELSE IF phase_type = PhaseEnter
                    THEN (IF is_upward THEN PhaseStep ELSE -PhaseStep)
                    ELSE (IF is_upward THEN -PhaseStep ELSE PhaseStep)>>

calculate_change_percentage(ref_index, current_index, phase_type) ==
    IF ref_index = 0 THEN <<QZero, 0>>
    ELSE LET raw_change == Q((current_index - ref_index) * 100, ref_index)
             base_change == IF phase_type = PhaseEnter THEN raw_change ELSE QNeg(raw_change)
             crosses == \/ (ref_index < PhaseBoundary /\ PhaseBoundary <= current_index)
                        \/ (current_index < PhaseBoundary /\ PhaseBoundary <= ref_index)
             is_upward == current_index > ref_index
         IN  <<base_change,
               IF ~crosses THEN 0
               ELSE IF phase_type = PhaseEnter
                    THEN (IF is_upward THEN PhaseStep ELSE -PhaseStep)
                    ELSE (IF is_upward THEN -PhaseStep ELSE PhaseStep)>>


(***************************************************************************)
(* The store.  coin_daily_data, analysis_results and special_nodes are the *)
(* three tables the analyzer uses; analysis_results is kept in insertion   *)
(* order (its key is an AUTOINCREMENT id, it has no uniqueness rule).      *)
(***************************************************************************)
VARIABLES
    coin_daily_data,    \* set of DailyRecords, PRIMARY KEY (date, coin)
    analysis_results,   \* sequence of stored AnalysisResult rows
    special_nodes,      \* set of SpecialNode rows, UNIQUE (date, coin, node_type)
    last_call,          \* the last analyze_coin call: the node it detected, the
                        \* reference it resolved and the result it returned
    run,                \* the re-analysis run in progress, if any, with the
                        \* analyze_coin calls it has made
    prev_run,           \* what the last completed re-analysis run left behind
    calc                \* the last call of a pure function and its value

vars == <<coin_daily_data, analysis_results, special_nodes, last_call, run, prev_run, calc>>

NoNode == "none"

\* The maximum / minimum of a non-empty finite set of integers.
Max(S) == CHOOSE x \in S : \A y \in S : y <= x
Min(S) == CHOOSE x \in S : \A y \in S : x <= y

\* SELECT * FROM coin_daily_data WHERE coin = ? AND date = ?
get_coin_data(coin, date) ==
    IF \E r \in coin_daily_data : r.coin = coin /\ r.date = date
    THEN CHOOSE r \in coin_daily_data : r.coin = coin /\ r.date = date
    ELSE NULL

\* The rows of one asset by descending date (ORDER BY date DESC); an asset
\* has one row per date.
RECURSIVE DescendingFrom(_, _, _)
DescendingFrom(S, d, lowest) ==
    IF d < lowest THEN <<>>
    ELSE IF d = lowest
         THEN LET on == {r \in S : r.date = d}
              IN  IF on = {} THEN <<>> ELSE <<CHOOSE r \in on : TRUE>>
         ELSE LET mid == (d + lowest) \div 2
              IN  DescendingFrom(S, d, mid + 1) \o DescendingFrom(S, mid, lowest)

OrderByDateDesc(S) ==
    IF S = {} THEN <<>>
    ELSE LET dates == {r.date : r \in S}
         IN  DescendingFrom(S, Max(dates), Min(dates))

Limit(seq, n) == IF Len(seq) <= n THEN seq ELSE SubSeq(seq, 1, n)

\* SELECT * ... WHERE coin = ? ORDER BY date DESC LIMIT ?
get_coin_history(coin, limit) ==
    Limit(OrderByDateDesc({r \in coin_daily_data : r.coin = coin}), limit)

\* Fault variant: the record of the calendar day before, if there is one.
get_previous_day_data_calendar(coin, current_date) ==
    LET before == {r \in coin_daily_data : r.coin = coin /\ r.date = current_date - 1}
    IN  IF before = {} THEN NULL ELSE CHOOSE r \in before : TRUE

\* SELECT * ... WHERE coin = ? AND date < ? ORDER BY date DESC LIMIT 1
get_previous_day_data(coin, current_date) ==
    LET before == {r \in coin_daily_data : r.coin = coin /\ r.date < current_date}
    IN  IF before = {} THEN NULL
        ELSE CHOOSE r \in before : \A o \in before : o.date <= r.date

\* SELECT * ... WHERE date = ? AND is_dragon_leader = 1
get_dragon_leaders(date) ==
    {r \in coin_daily_data : r.date = date /\ r.is_dragon_leader = 1}

\* Fault variant: a day 1 dated on before_date itself is accepted.
find_last_phase_node_inclusive(coin, phase_type, before_date) ==
    LET history == get_coin_history(coin, HistoryLimit)
        hit == {i \in 1..Len(history) : /\ history[i].date <= before_date
                                        /\ history[i].phase_type = phase_type
                                        /\ history[i].phase_days = 1}
    IN  IF hit = {} THEN NULL
        ELSE [date |-> history[Min(hit)].date,
              offchain_index |-> history[Min(hit)].offchain_index]

\* The latest day 1 of the phase before before_date, among the history
\* get_coin_history returns.
find_last_phase_node(coin, phase_type, before_date) ==
    LET history == get_coin_history(coin, HistoryLimit)
        hit == {i \in 1..Len(history) : /\ history[i].date < before_date
                                        /\ history[i].phase_type = phase_type
                                        /\ history[i].phase_days = 1}
    IN  IF hit = {} THEN NULL
        ELSE [date |-> history[Min(hit)].date,
              offchain_index |-> history[Min(hit)].offchain_index]

\* previous and current straddle the threshold in the given direction
Crossed(previous, current, threshold, cross_direction) ==
    \/ /\ cross_direction = "down"
       /\ previous.break_index >= threshold
       /\ current.break_index < threshold
    \/ /\ cross_direction = "up"
       /\ previous.break_index < threshold
       /\ current.break_index >= threshold

\* Fault variant: the scan starts from the asset's newest record.
find_crossing_node_unbounded(coin, before_date, threshold, cross_direction) ==
    LET records == OrderByDateDesc({r \in coin_daily_data : r.coin = coin})
        hit == {i \in 1..(Len(records) - 1) :
                    Crossed(records[i + 1], records[i], threshold, cross_direction)}
    IN  IF Len(records) < 2 \/ hit = {} THEN NULL
        ELSE LET current == records[Min(hit)]
                 previous == records[Min(hit) + 1]
             IN  [date |-> current.date,
                  offchain_index |-> interpolate_offchain_index(
                      previous.offchain_index, current.offchain_index,
                      previous.break_index, current.break_index, threshold)]

\* The first adjacent pair, scanning down from just before before_date,
\* that straddles the threshold; the value interpolated at the threshold.
find_crossing_node(coin, before_date, threshold, cross_direction) ==
    LET records == OrderByDateDesc({r \in coin_daily_data :
                                        r.coin = coin /\ r.date < before_date})
        hit == {i \in 1..(Len(records) - 1) :
                    Crossed(records[i + 1], records[i], threshold, cross_direction)}
    IN  IF Len(records) < 2 \/ hit = {} THEN NULL
        ELSE LET current == records[Min(hit)]
                 previous == records[Min(hit) + 1]
             IN  [date |-> current.date,
                  offchain_index |-> interpolate_offchain_index(
                      previous.offchain_index, current.offchain_index,
                      previous.break_index, current.break_index, threshold)]

(***************************************************************************)
(* MagAnalyzer: key-node detection and reference resolution.               *)
(***************************************************************************)
\* Fault variant: the break-index checks run before the day-1 checks.
detect_key_node_break_first(coin, coin_data) ==
    LET previous_data == get_previous_day_data(coin, coin_data.date)
    IN  IF /\ previous_data # NULL
           /\ previous_data.break_index >= BreakHigh
           /\ coin_data.break_index < BreakHigh
        THEN "break_200"
        ELSE IF /\ previous_data # NULL
                /\ previous_data.break_index < BreakLow
                /\ coin_data.break_index >= BreakLow
        THEN "break_0"
        ELSE IF coin_data.phase_type = PhaseEnter /\ coin_data.phase_days = 1
        THEN "enter_phase_day1"
        ELSE IF coin_data.phase_type = PhaseExit /\ coin_data.phase_days = 1
        THEN "exit_phase_day1"
        ELSE NoNode

\* Fault variant: a first record is compared with itself as its predecessor.
detect_key_node_self_previous(coin, coin_data) ==
    IF coin_data.phase_type = PhaseEnter /\ coin_data.phase_days = 1
    THEN "enter_phase_day1"
    ELSE IF coin_data.phase_type = PhaseExit /\ coin_data.phase_days = 1
    THEN "exit_phase_day1"
    ELSE LET found == get_previous_day_data(coin, coin_data.date)
             previous_data == IF found = NULL
                              THEN [break_index |-> BreakHigh]
                              ELSE found
         IN  IF /\ previous_data.break_index >= BreakHigh
                /\ coin_data.break_index < BreakHigh
             THEN "break_200"
             ELSE IF /\ previous_data.break_index < BreakLow
                     /\ coin_data.break_index >= BreakLow
             THEN "break_0"
             ELSE NoNode

detect_key_node(coin, coin_data) ==
    IF coin_data.phase_type = PhaseEnter /\ coin_data.phase_days = 1
    THEN "enter_phase_day1"
    ELSE IF coin_data.phase_type = PhaseExit /\ coin_data.phase_days = 1
    THEN "exit_phase_day1"
    ELSE LET previous_data == get_previous_day_data(coin, coin_data.date)
         IN  IF /\ previous_data # NULL
                /\ previous_data.break_index >= BreakHigh
                /\ coin_data.break_index < BreakHigh
             THEN "break_200"
             ELSE IF /\ previous_data # NULL
                     /\ previous_data.break_index < BreakLow
                     /\ coin_data.break_index >= BreakLow
             THEN "break_0"
             ELSE NoNode

\* The candidate list of the resolver: the crossing first, then the day-1 node.
Candidates(crossing, crossing_type, phase_node, phase_node_type) ==
    (IF crossing = NULL THEN <<>>
     ELSE <<[date |-> crossing.date, offchain_index |-> crossing.offchain_index,
             node_type |-> crossing_type]>>)
    \o
    (IF phase_node = NULL THEN <<>>
     ELSE <<[date |-> phase_node.date, offchain_index |-> phase_node.offchain_index,
             node_type |-> phase_node_type]>>)

\* Fault variant: without candidates a neutral reference is made up.
max_by_date_or_default(candidates) ==
    IF candidates = <<>>
    THEN [date |-> 0, offchain_index |-> PhaseBoundary, node_type |-> NoNode]
    ELSE candidates[Min({i \in 1..Len(candidates) :
                            \A j \in 1..Len(candidates) :
                                candidates[j].date <= candidates[i].date})]

\* Fault variant: the last of the latest candidates.
max_by_date_last(candidates) ==
    IF candidates = <<>> THEN NULL
    ELSE candidates[Max({i \in 1..Len(candidates) :
                            \A j \in 1..Len(candidates) :
                                candidates[j].date <= candidates[i].date})]

\* max(candidates, key=lambda x: x['date']): the first of the latest ones.
max_by_date(candidates) ==
    IF candidates = <<>> THEN NULL
    ELSE candidates[Min({i \in 1..Len(candidates) :
                            \A j \in 1..Len(candidates) :
                                candidates[j].date <= candidates[i].date})]

find_reference_node(coin, current_date, node_type) ==
    IF node_type \in {"enter_phase_day1", "break_200"}
    THEN max_by_date(Candidates(
            find_crossing_node(coin, current_date, BreakHigh, "down"), "break_200",
            find_last_phase_node(coin, PhaseEnter, current_date), "enter_phase_day1"))
    ELSE IF node_type \in {"exit_phase_day1", "break_0"}
    THEN max_by_date(Candidates(
            find_crossing_node(coin, current_date, BreakLow, "up"), "break_0",
            find_last_phase_node(coin, PhaseExit, current_date), "exit_phase_day1"))
    ELSE NULL

(***************************************************************************)
(* MagAnalyzer: the corrections and the quality tier.                      *)
(***************************************************************************)
\* dragon_weights, in percent
DragonCoins == {"ETH", "BNB", "SOL", "DOGE"}
dragon_weights(leader_coin) ==
    CASE leader_coin = "ETH" -> Q(-5, 2)
      [] leader_coin = "BNB" -> Q(-3, 2)
      [] leader_coin = "SOL" -> QInt(-1)
      [] leader_coin = "DOGE" -> Q(-1, 2)

RECURSIVE SumWeights(_)
SumWeights(details) ==
    IF details = {} THEN QZero
    ELSE LET one == CHOOSE x \in details : TRUE
         IN  QAdd(one.weight, SumWeights(details \ {one}))

\* Fault variant: a leader asset is compared with the leaders as well.
divergence_details_leader_compared(coin, date, coin_data) ==
    LET current_phase == coin_data.phase_type
        us_stock == get_coin_data("NASDAQ", date)
        btc_data == get_coin_data("BTC", date)
    IN  (IF /\ coin_data.is_us_stock = 0
            /\ us_stock # NULL
            /\ us_stock.phase_type # current_phase
         THEN {[name |-> "NASDAQ", weight |-> QInt(-10), phase |-> us_stock.phase_type]}
         ELSE {})
        \cup (IF /\ coin # "BTC"
                 /\ coin_data.is_us_stock = 0
                 /\ btc_data # NULL
                 /\ btc_data.phase_type # current_phase
              THEN {[name |-> "BTC", weight |-> QInt(-5), phase |-> btc_data.phase_type]}
              ELSE {})
        \cup (IF coin # "BTC" /\ coin_data.is_us_stock = 0
              THEN {[name |-> leader.coin, weight |-> dragon_weights(leader.coin),
                     phase |-> leader.phase_type] :
                       leader \in {l \in get_dragon_leaders(date) :
                                       /\ l.phase_type # current_phase
                                       /\ l.coin # coin
                                       /\ l.coin \in DragonCoins}}
              ELSE {})

\* The benchmarks whose phase differs from the asset's: the breakdown.
divergence_details(coin, date, coin_data) ==
    LET current_phase == coin_data.phase_type
        us_stock == get_coin_data("NASDAQ", date)
        btc_data == get_coin_data("BTC", date)
        nasdaq == IF /\ coin_data.is_us_stock = 0
                     /\ us_stock # NULL
                     /\ us_stock.phase_type # current_phase
                  THEN {[name |-> "NASDAQ", weight |-> QInt(-10),
                         phase |-> us_stock.phase_type]}
                  ELSE {}
        btc == IF /\ coin # "BTC"
                  /\ coin_data.is_us_stock = 0
                  /\ btc_data # NULL
                  /\ btc_data.phase_type # current_phase
               THEN {[name |-> "BTC", weight |-> QInt(-5), phase |-> btc_data.phase_type]}
               ELSE {}
        leaders == IF /\ coin_data.is_dragon_leader = 0
                      /\ coin # "BTC"
                      /\ coin_data.is_us_stock = 0
                   THEN {[name |-> leader.coin, weight |-> dragon_weights(leader.coin),
                          phase |-> leader.phase_type] :
                            leader \in {l \in get_dragon_leaders(date) :
                                            /\ l.phase_type # current_phase
                                            /\ l.coin \in DragonCoins}}
                   ELSE {}
    IN  nasdaq \cup btc \cup leaders

\* _calculate_benchmark_divergence_correction: <<total, breakdown>>
calculate_benchmark_divergence_correction(coin, date, coin_data) ==
    LET details == divergence_details(coin, date, coin_data)
    IN  <<SumWeights(details), details>>

\* _check_benchmark_chain: the benchmark records shown with a result
check_benchmark_chain(coin, date, coin_data) ==
    LET us_stock == get_coin_data("NASDAQ", date)
        btc_data == get_coin_data("BTC", date)
        entry(key, d) == [key |-> key, coin |-> d.coin, phase_type |-> d.phase_type,
                          offchain_index |-> d.offchain_index]
    IN  IF coin_data.is_us_stock # 0 THEN {}
        ELSE (IF us_stock # NULL THEN {entry("us_stock", us_stock)} ELSE {})
             \cup (IF coin # "BTC" /\ btc_data # NULL THEN {entry("btc", btc_data)} ELSE {})
             \cup (IF coin_data.is_dragon_leader = 0 /\ coin # "BTC"
                   THEN {entry("dragon_leaders", d) : d \in get_dragon_leaders(date)}
                   ELSE {})

calculate_break_index_correction(node_type, break_index) ==
    IF node_type = "enter_phase_day1" /\ break_index > BreakHigh THEN Q(-5, 2)
    ELSE IF node_type = "exit_phase_day1" /\ break_index < BreakLow THEN Q(-5, 2)
    ELSE QZero

\* Fault variant: the two boundaries belong to the outer tiers.
get_quality_rating_closed(final_percentage) ==
    IF ~QLess(final_percentage, QInt(5)) THEN "Excellent"
    ELSE IF QLess(QInt(-5), final_percentage) THEN "Average"
    ELSE "Poor"

\* '优质' / '一般' / '劣质'
get_quality_rating(final_percentage) ==
    IF QLess(QInt(5), final_percentage) THEN "Excellent"
    ELSE IF ~QLess(final_percentage, QInt(-5)) THEN "Average"
    ELSE "Poor"

\* Fault variant: the approaching correction is left out of the sum.
final_percentage_without_approaching(change_pct, phase_correction, divergence_correction, break_index_correction, approaching_correction) ==
    QAdd(QAdd(QAdd(change_pct, phase_correction), divergence_correction),
         break_index_correction)

\* Fault variant: the flag of the analysed record is not looked at.
calculate_approaching_correction_none(coin_data) == QZero

\* Fault variant: the correction is given only while no approaching event
\* is stored for the record.
calculate_approaching_correction_once(coin_data) ==
    IF /\ coin_data.is_approaching = 1
       /\ ~\E o \in special_nodes : /\ o.coin = coin_data.coin
                                     /\ o.date = coin_data.date
                                     /\ o.node_type = "approaching"
    THEN QInt(-5) ELSE QZero

\* lines 78-81: -5 when the analysed record carries is_approaching
calculate_approaching_correction(coin_data) ==
    IF coin_data.is_approaching = 1 THEN QInt(-5) ELSE QZero

\* final_pct = change_pct + phase_correction + divergence_correction
\*             + break_index_correction + approaching_correction
final_percentage(change_pct, phase_correction, divergence_correction, break_index_correction, approaching_correction) ==
    QAdd(QAdd(QAdd(QAdd(change_pct, phase_correction), divergence_correction),
              break_index_correction), approaching_correction)

(***************************************************************************)
(* MagAnalyzer._identify_section and its two counters.                     *)
(***************************************************************************)
\* The crossings between consecutive records of the history from the last
\* day 1 of the phase before current_date up to current_date.
count_crossings_since(coin, current_date, phase_type, threshold, cross_direction) ==
    LET phase_node == find_last_phase_node(coin, phase_type, current_date)
        history == get_coin_history(coin, HistoryLimit)
        window == IF phase_node = NULL THEN <<>>
                  ELSE SelectSeq(history,
                           LAMBDA r : phase_node.date <= r.date /\ r.date <= current_date)
    IN  IF phase_node = NULL THEN 1
        ELSE Cardinality({i \in 1..(Len(window) - 1) :
                            Crossed(window[i + 1], window[i], threshold, cross_direction)})

count_break_200_since_enter(coin, current_date) ==
    count_crossings_since(coin, current_date, PhaseEnter, BreakHigh, "down")

count_break_0_since_exit(coin, current_date) ==
    count_crossings_since(coin, current_date, PhaseExit, BreakLow, "up")

\* <<section number, recorded change since the reference>>
identify_section(coin, date, phase_type, reference, current_node_type) ==
    LET coin_data == get_coin_data(coin, date)
        section_pct == calculate_change_percentage(
                           reference.offchain_index, coin_data.offchain_index, phase_type)[1]
    IN  IF phase_type = PhaseEnter
        THEN <<IF current_node_type = "break_200"
               THEN count_break_200_since_enter(coin, date) + 1 ELSE 1, section_pct>>
        ELSE <<IF current_node_type = "break_0"
               THEN count_break_0_since_exit(coin, date) + 1 ELSE 1, section_pct>>

(***************************************************************************)
(* The special-node scan (MagAnalyzer._detect_special_nodes).              *)
(***************************************************************************)
\* check_count: 14 updates for the equity benchmark, 7 for a coin
CheckCountStock == 14
CheckCountCoin == 7

\* A row of special_nodes; the description is its formatted text, kept as
\* the parts it is formatted from.
SpecialNode(date, coin, node_type, text, offchain_index, break_index) ==
    [date |-> date, coin |-> coin, node_type |-> node_type, description |-> text,
     offchain_index |-> offchain_index, break_index |-> break_index]

\* Fault variant: INSERT OR REPLACE, the new row takes the place of the old one.
insert_special_node_replacing(table, row) ==
    {o \in table : ~(o.date = row.date /\ o.coin = row.coin /\ o.node_type = row.node_type)}
    \cup {row}

\* INSERT OR IGNORE INTO special_nodes: a row with the same key stays as it is
insert_special_node(table, row) ==
    IF \E o \in table : /\ o.date = row.date
                        /\ o.coin = row.coin
                        /\ o.node_type = row.node_type
    THEN table
    ELSE table \cup {row}

\* SELECT COUNT of special_nodes rows WHERE coin, node_type, date range
has_quality_warning_in_section(coin, section_start_date, current_date, node_type) ==
    \E o \in special_nodes : /\ o.coin = coin
                             /\ o.node_type = node_type
                             /\ o.date >= section_start_date
                             /\ o.date <= current_date

\* The start date of the sub-cycle current_date lies in, or NULL.
find_current_section_start_date(coin, current_date, phase_type) ==
    LET current_data == get_coin_data(coin, current_date)
        previous_data == get_previous_day_data(coin, current_date)
        phase_node == find_last_phase_node(coin, phase_type, current_date)
        crossing == IF phase_type = PhaseEnter
                    THEN find_crossing_node(coin, current_date, BreakHigh, "down")
                    ELSE find_crossing_node(coin, current_date, BreakLow, "up")
        candidates == (IF phase_node # NULL THEN {phase_node.date} ELSE {})
                      \cup (IF crossing # NULL THEN {crossing.date} ELSE {})
    IN  IF current_data = NULL THEN NULL
        ELSE IF current_data.phase_days = 1 THEN [date |-> current_date]
        ELSE IF /\ previous_data # NULL
                /\ \/ /\ phase_type = PhaseEnter
                      /\ Crossed(previous_data, current_data, BreakHigh, "down")
                   \/ /\ phase_type = PhaseExit
                      /\ Crossed(previous_data, current_data, BreakLow, "up")
        THEN [date |-> current_date]
        ELSE IF candidates = {} THEN NULL
        ELSE [date |-> Max(candidates)]

RECURSIVE SumBreak(_, _, _)
\* sum of the break indices of data[from..to]
SumBreak(data, from, to) ==
    IF from > to THEN 0 ELSE data[from].break_index + SumBreak(data, from + 1, to)

\* The records of the sub-cycle up to date, most recent first.
section_data(coin, section_start_date, date) ==
    SelectSeq(get_coin_history(coin, HistoryLimit),
              LAMBDA r : section_start_date <= r.date /\ r.date <= date)

\* second_half_avg < first_half_avg over the break indices in history order
is_declining(data) ==
    LET mid == Len(data) \div 2
    IN  SumBreak(data, mid + 1, Len(data)) * mid < SumBreak(data, 1, mid) * (Len(data) - mid)

\* Fault variant: the warning is due on every update from the check_count-th
\* on, whether or not one is stored for the sub-cycle.
quality_warning_due_each_update(coin, date, phase_type, check_count, warning_type, start, data) ==
    /\ Len(data) >= check_count
    /\ IF phase_type = PhaseEnter
       THEN /\ \A i \in 1..Len(data) : data[i].break_index < BreakHigh
            /\ is_declining(data)
       ELSE \A i \in 1..Len(data) : data[i].break_index >= BreakLow

\* lines 757-809: the warning is due when the sub-cycle holds check_count
\* records, none of them past the threshold (and, in the entry phase, with
\* a declining trend), and no warning of the type is stored for it
quality_warning_due(coin, date, phase_type, check_count, warning_type, start, data) ==
    /\ ~has_quality_warning_in_section(coin, start.date, date, warning_type)
    /\ Len(data) = check_count
    /\ IF phase_type = PhaseEnter
       THEN /\ \A i \in 1..Len(data) : data[i].break_index < BreakHigh
            /\ is_declining(data)
       ELSE \A i \in 1..Len(data) : data[i].break_index >= BreakLow

quality_warning(coin, date, phase_type, check_count, warning_type, start) ==
    /\ phase_type \in PhaseTypes
    /\ start # NULL
    /\ quality_warning_due(coin, date, phase_type, check_count, warning_type, start,
                           section_data(coin, start.date, date))

\* The rows the scan inserts for one record.
detect_special_nodes(coin, date, coin_data) ==
    LET phase_type == coin_data.phase_type
        offchain_index == coin_data.offchain_index
        break_index == coin_data.break_index
        check_count == IF coin_data.is_us_stock # 0 THEN CheckCountStock ELSE CheckCountCoin
        prev_data == get_previous_day_data(coin, date)
        node(node_type, text) ==
            SpecialNode(date, coin, node_type,
                        [text |-> text, phase |-> phase_type, count |-> check_count],
                        offchain_index, break_index)
        warning_type == IF phase_type = PhaseEnter THEN "quality_warning_entry"
                        ELSE "quality_warning_exit"
    IN  (IF coin_data.is_approaching = 1 THEN {node("approaching", "approaching")} ELSE {})
        \cup (IF /\ prev_data # NULL
                 /\ prev_data.offchain_index < PhaseBoundary
                 /\ PhaseBoundary <= offchain_index
              THEN {node("offchain_above_1000", "offchain above 1000")} ELSE {})
        \cup (IF /\ prev_data # NULL
                 /\ prev_data.offchain_index >= PhaseBoundary
                 /\ PhaseBoundary > offchain_index
              THEN {node("offchain_below_1000", "offchain below 1000")} ELSE {})
        \cup (IF /\ prev_data # NULL
                 /\ prev_data.break_index < BreakHigh
                 /\ BreakHigh <= break_index
              THEN {node("break_above_200", "break above 200")} ELSE {})
        \cup (IF quality_warning(coin, date, phase_type, check_count, warning_type,
                                 find_current_section_start_date(coin, date, phase_type))
              THEN {node(warning_type, "quality warning")} ELSE {})

RECURSIVE InsertAll(_, _)
InsertAll(table, rows) ==
    IF rows = {} THEN table
    ELSE LET row == CHOOSE x \in rows : TRUE
         IN  InsertAll(insert_special_node(table, row), rows \ {row})

(***************************************************************************)
(* MagAnalyzer.analyze_coin                                                *)
(***************************************************************************)
\* Fault variant: the recorded value is taken for every node.
current_offchain_index_recorded(coin, date, coin_data, node_type) == coin_data.offchain_index

\* The value the analysis compares with the reference: interpolated at the
\* threshold when the node is itself a crossing.
current_offchain_index(coin, date, coin_data, node_type) ==
    LET previous_data == get_previous_day_data(coin, date)
    IN  IF node_type \in {"break_200", "break_0"} /\ previous_data # NULL
        THEN interpolate_offchain_index(
                 previous_data.offchain_index, coin_data.offchain_index,
                 previous_data.break_index, coin_data.break_index,
                 IF node_type = "break_200" THEN BreakHigh ELSE BreakLow)
        ELSE coin_data.offchain_index

\* What one call leaves to look at: the node it detected, the reference it
\* resolved and the result it returned (NULL for None).
Outcome(node_type, reference, result) ==
    [node_type |-> node_type, reference |-> reference, result |-> result]

\* lines 97-116: the result, with its tier
build_result(coin, date, coin_data, node_type, reference, section, current, change, divergence, break_correction, approaching, final_pct) ==
    [date |-> date,
     coin |-> coin,
     node_type |-> node_type,
     reference_node_date |-> reference.date,
     reference_node_type |-> reference.node_type,
     reference_offchain_index |-> reference.offchain_index,
     current_offchain_index |-> current,
     change_percentage |-> change[1],
     phase_correction |-> QInt(change[2]),
     divergence_correction |-> divergence[1],
     divergence_details |-> divergence[2],
     break_index_correction |-> break_correction,
     approaching_correction |-> approaching,
     final_percentage |-> final_pct,
     quality_rating |-> get_quality_rating(final_pct),
     benchmark_details |-> check_benchmark_chain(coin, date, coin_data),
     section_num |-> section[1],
     section_pct |-> section[2]]

\* line 90: the corrections are added to the change
sum_corrections(coin, date, coin_data, node_type, reference, section, current, change, divergence, break_correction, approaching) ==
    build_result(coin, date, coin_data, node_type, reference, section, current, change,
                 divergence, break_correction, approaching,
                 final_percentage(change[1], QInt(change[2]), divergence[1],
                                  break_correction, approaching))

\* lines 33-88: the section, the change and the corrections of a node with
\* a reference
analyze_node(coin, date, coin_data, node_type, reference, current) ==
    sum_corrections(
        coin, date, coin_data, node_type, reference,
        identify_section(coin, date, coin_data.phase_type, reference, node_type),
        current,
        calculate_change_percentage(reference.offchain_index, current, coin_data.phase_type),
        calculate_benchmark_divergence_correction(coin, date, coin_data),
        calculate_break_index_correction(node_type, coin_data.break_index),
        calculate_approaching_correction(coin_data))

\* lines 28-31: no reference, no result
analyze_reference(coin, date, coin_data, node_type, reference) ==
    IF reference = NULL THEN Outcome(node_type, NULL, NULL)
    ELSE Outcome(node_type, reference,
                 analyze_node(coin, date, coin_data, node_type, reference,
                              current_offchain_index(coin, date, coin_data, node_type)))

\* lines 23-26: no key node, no result
analyze_record(coin, date, coin_data, node_type) ==
    IF node_type = NoNode THEN Outcome(NoNode, NULL, NULL)
    ELSE analyze_reference(coin, date, coin_data, node_type,
                           find_reference_node(coin, date, node_type))

\* lines 17-19: no record, no result
analyze_data(coin, date, coin_data) ==
    IF coin_data = NULL THEN Outcome(NoNode, NULL, NULL)
    ELSE analyze_record(coin, date, coin_data, detect_key_node(coin, coin_data))

analyze(coin, date) == analyze_data(coin, date, get_coin_data(coin, date))

\* The row save_analysis_result stores of a result: the result has no
\* 'us_stock_correction' key, so that column gets the default 0.
save_analysis_result(table, result) ==
    Append(table,
           [date |-> result.date,
            coin |-> result.coin,
            node_type |-> result.node_type,
            reference_node_date |-> result.reference_node_date,
            reference_offchain_index |-> result.reference_offchain_index,
            current_offchain_index |-> result.current_offchain_index,
            change_percentage |-> result.change_percentage,
            phase_correction |-> result.phase_correction,
            us_stock_correction |-> QZero,
            break_index_correction |-> result.break_index_correction,
            approaching_correction |-> result.approaching_correction,
            final_percentage |-> result.final_percentage,
            quality_rating |-> result.quality_rating,
            benchmark_chain_status |-> result.benchmark_details])

\* Fault variant: the scan runs after key-node detection has found a node.
scan_record_after_detection(coin, date, coin_data) ==
    IF coin_data = NULL \/ detect_key_node(coin, coin_data) = NoNode THEN special_nodes
    ELSE InsertAll(special_nodes, detect_special_nodes(coin, date, coin_data))

\* The effect of one analyze_coin(coin, date) call on the two tables: the
\* special-node scan of an existing record, then the result row, if any.
scan_record(coin, date, coin_data) ==
    IF coin_data = NULL THEN special_nodes
    ELSE InsertAll(special_nodes, detect_special_nodes(coin, date, coin_data))

special_nodes_after(coin, date) == scan_record(coin, date, get_coin_data(coin, date))

analysis_results_after(result) ==
    IF result = NULL THEN analysis_results
    ELSE save_analysis_result(analysis_results, result)

(***************************************************************************)
(* MagDatabase.delete_analysis_results and get_data_in_range               *)
(***************************************************************************)
\* Fault variant: the old result rows of the range are kept.
delete_results_kept(table, start_date, end_date) == table

\* DELETE FROM analysis_results WHERE date >= start_date AND date <= end_date
delete_analysis_results(table, start_date, end_date) ==
    SelectSeq(table, LAMBDA row : ~(row.date >= start_date /\ row.date <= end_date))

\* DELETE FROM special_nodes WHERE date >= start_date AND date <= end_date
delete_special_nodes(table, start_date, end_date) ==
    {row \in table : ~(row.date >= start_date /\ row.date <= end_date)}

\* the asset names in ascending order (ORDER BY coin ASC)
CoinOrder == <<"ALT", "BTC">>

RECURSIVE DataFrom(_, _)
\* the records dated d..end_date, ORDER BY date ASC, coin ASC
DataFrom(d, end_date) ==
    IF d > end_date THEN <<>>
    ELSE SelectSeq([i \in 1..Len(CoinOrder) |-> get_coin_data(CoinOrder[i], d)],
                   LAMBDA r : r # NULL)
         \o DataFrom(d + 1, end_date)

get_data_in_range(start_date, end_date) ==
    IF coin_daily_data = {} THEN <<>>
    ELSE LET dates == {r.date : r \in coin_daily_data}
         IN  DataFrom(Max({start_date, Min(dates)}), Min({end_date, Max(dates)}))

RECURSIVE RecordsByDateDescending(_, _)
\* Fault variant: the dates are taken from the latest to the earliest.
RecordsByDateDescending(all_data, dates) ==
    IF dates = {} THEN <<>>
    ELSE LET date == Max(dates)
         IN  SelectSeq(all_data, LAMBDA record : record.date = date)
             \o RecordsByDateDescending(all_data, dates \ {date})

group_by_date_descending(all_data) ==
    RecordsByDateDescending(all_data, {all_data[i].date : i \in 1..Len(all_data)})

RECURSIVE RecordsByDate(_, _)
\* data_by_date[date] for the dates in ascending order
RecordsByDate(all_data, dates) ==
    IF dates = {} THEN <<>>
    ELSE LET date == Min(dates)
         IN  SelectSeq(all_data, LAMBDA record : record.date = date)
             \o RecordsByDate(all_data, dates \ {date})

\* lines 58-66 and 83-86: the records grouped by date, the dates sorted, the
\* records of a date in the order of the query
group_by_date(all_data) ==
    RecordsByDate(all_data, {all_data[i].date : i \in 1..Len(all_data)})

NoCall == [coin |-> "", date |-> 0, node_type |-> NoNode, reference |-> NULL, result |-> NULL]
AllCoins == {}
Idle == [pc |-> "idle", start_date |-> 0, end_date |-> 0, coins |-> AllCoins,
         queue |-> <<>>, calls |-> <<>>, count |-> 0]
NoRun == [valid |-> FALSE, start_date |-> 0, end_date |-> 0, coins |-> AllCoins,
          analysis_results |-> <<>>, special_nodes |-> {},
          repeated |-> FALSE, previous_results |-> <<>>, previous_nodes |-> {}]
NoCalc == [op |-> "none", args |-> <<>>, out |-> <<>>, done |-> FALSE]

\* The effect of analyze_coin(coin, date) on the tables, recorded in last_call.
analyze_coin(coin, date) ==
    \E outcome \in {analyze(coin, date)} :
        /\ special_nodes' = special_nodes_after(coin, date)
        /\ analysis_results' = analysis_results_after(outcome.result)
        /\ last_call' = [coin |-> coin, date |-> date,
                         node_type |-> outcome.node_type,
                         reference |-> outcome.reference,
                         result |-> outcome.result]

\* A call analyze_coin(coin, date) outside a re-analysis run.
AnalyzeCoin(coin, date) ==
    /\ run.pc = "idle"
    /\ analyze_coin(coin, date)
    /\ prev_run' = NoRun
    /\ UNCHANGED <<coin_daily_data, run, calc>>

\* The first call on a freshly imported history.
AnalyzeFirst(coin, date) ==
    /\ last_call = NoCall
    /\ AnalyzeCoin(coin, date)

(***************************************************************************)
(* Short histories: the asset ALT with every shape of record on the dates  *)
(* 1..MaxDate (a date may have no record), beside the primary coin BTC,    *)
(* which is in the exit phase on the odd dates.  One analyze_coin call is  *)
(* made on each history.                                                   *)
(***************************************************************************)
Dates == 1..MaxDate
Coins == {"ALT", "BTC"}
BreakValues == {-10, 190, 210}

\* the off-chain index recorded on a date
OffchainAt(d) ==
    CASE d % 4 = 1 -> 900
      [] d % 4 = 2 -> 1020
      [] d % 4 = 3 -> 1090
      [] OTHER -> 980

DailyRecord(date, coin, phase_type, phase_days, offchain_index, break_index, is_dragon_leader, is_us_stock, is_approaching) ==
    [date |-> date, coin |-> coin, phase_type |-> phase_type, phase_days |-> phase_days,
     offchain_index |-> offchain_index, break_index |-> break_index,
     is_dragon_leader |-> is_dragon_leader, is_us_stock |-> is_us_stock,
     is_approaching |-> is_approaching, is_cn_stock |-> 0]

\* the records an asset may have on a date
Shapes(coin, d) ==
    {DailyRecord(d, coin, p, n, OffchainAt(d), b, 0, 0, 0) :
        p \in PhaseTypes, n \in {1, 2}, b \in BreakValues}
    \cup {DailyRecord(d, coin, PhaseEnter, 2, OffchainAt(d), 190, 0, 0, 1)}

BenchmarkRecords ==
    {DailyRecord(d, "BTC", PhaseExit, 2, 1000, 100, 0, 0, 0) : d \in {x \in Dates : x % 2 = 1}}

\* the histories of one asset over the dates 1..n: on each date, one record
\* or none
RECURSIVE Histories(_, _)
Histories(coin, n) ==
    IF n = 0 THEN {{}}
    ELSE LET shorter == Histories(coin, n - 1)
         IN  shorter \cup {h \cup {r} : h \in shorter, r \in Shapes(coin, n)}

Init ==
    /\ coin_daily_data \in {h \cup BenchmarkRecords : h \in Histories("ALT", MaxDate)}
    /\ analysis_results = <<>>
    /\ special_nodes = {}
    /\ last_call = NoCall
    /\ run = Idle
    /\ prev_run = NoRun
    /\ calc = NoCalc

Next == \E date \in Dates : AnalyzeFirst("ALT", date)

Spec == Init /\ [][Next]_vars

(***************************************************************************)
(* Long histories: a short history of entry-phase records followed by a    *)
(* long tail of quiet days, so that the history reaches the limit of       *)
(* get_coin_history.                                                       *)
(***************************************************************************)
LongShapes(coin, d) ==
    {DailyRecord(d, coin, PhaseEnter, 1, OffchainAt(d), 210, 0, 0, 0),
     DailyRecord(d, coin, PhaseEnter, 2, OffchainAt(d), 210, 0, 0, 0),
     DailyRecord(d, coin, PhaseEnter, 2, OffchainAt(d), 190, 0, 0, 0)}

RECURSIVE LongHeads(_, _)
LongHeads(coin, n) ==
    IF n = 0 THEN {{}}
    ELSE LET shorter == LongHeads(coin, n - 1)
         IN  shorter \cup {h \cup {r} : h \in shorter, r \in LongShapes(coin, n)}

QuietTail(coin, n) ==
    {DailyRecord(d, coin, PhaseEnter, 3, 1000, 100, 0, 0, 0) : d \in (MaxDate + 1)..(MaxDate + n)}

InitLong ==
    /\ coin_daily_data \in
          {h \cup QuietTail("ALT", n) :
              h \in LongHeads("ALT", MaxDate), n \in (HistoryLimit - MaxDate)..HistoryLimit}
    /\ analysis_results = <<>>
    /\ special_nodes = {}
    /\ last_call = NoCall
    /\ run = Idle
    /\ prev_run = NoRun
    /\ calc = NoCalc

SpecLong == InitLong /\ [][Next]_vars

(***************************************************************************)
(* The pure computations on their own: the arguments are drawn from grids  *)
(* around the thresholds, and one call is made on each.                    *)
(***************************************************************************)
OffchainInputs == {0, 900, 980, 1020, 1090}
BreakInputs == {-10, -3, 0, 5, 190, 200, 210}
Thresholds == {BreakLow, BreakHigh}
IndexInputs == {0, 900, 999, 1000, 1001, 1100}

InterpolateArgs ==
    {<<off1, off2, break1, break2, t>> :
        off1 \in OffchainInputs, off2 \in OffchainInputs,
        break1 \in BreakInputs, break2 \in BreakInputs, t \in Thresholds}

ChangeArgs ==
    {<<ref_index, current_index, phase_type>> :
        ref_index \in IndexInputs, current_index \in IndexInputs, phase_type \in PhaseTypes}

\* final percentages around the two tier boundaries, in hundredths
RatingArgs ==
    {<<Q(hundredths, 100)>> :
        hundredths \in {-2000, -501, -500, -499, -1, 0, 1, 499, 500, 501, 2000}}

InitCalc ==
    /\ coin_daily_data = {}
    /\ analysis_results = <<>>
    /\ special_nodes = {}
    /\ last_call = NoCall
    /\ run = Idle
    /\ prev_run = NoRun
    /\ calc \in {[op |-> "interpolate", args |-> a, out |-> <<>>, done |-> FALSE] :
                    a \in InterpolateArgs}
            \cup {[op |-> "change", args |-> a, out |-> <<>>, done |-> FALSE] :
                    a \in ChangeArgs}
            \cup {[op |-> "rating", args |-> a, out |-> <<>>, done |-> FALSE] :
                    a \in RatingArgs}

\* _interpolate_offchain_index(off1, off2, break1, break2, target_break)
Interpolate ==
    /\ calc.op = "interpolate"
    /\ ~calc.done
    /\ calc' = [calc EXCEPT
                  !.out = <<interpolate_offchain_index(
                              calc.args[1], calc.args[2], calc.args[3],
                              calc.args[4], calc.args[5])>>,
                  !.done = TRUE]
    /\ UNCHANGED <<coin_daily_data, analysis_results, special_nodes, last_call, run, prev_run>>

\* _calculate_change_percentage(ref_index, current_index, phase_type)
ChangePercentage ==
    /\ calc.op = "change"
    /\ ~calc.done
    /\ calc' = [calc EXCEPT
                  !.out = calculate_change_percentage(
                              calc.args[1], calc.args[2], calc.args[3]),
                  !.done = TRUE]
    /\ UNCHANGED <<coin_daily_data, analysis_results, special_nodes, last_call, run, prev_run>>

\* _get_quality_rating(final_percentage)
QualityRating ==
    /\ calc.op = "rating"
    /\ ~calc.done
    /\ calc' = [calc EXCEPT !.out = <<get_quality_rating(calc.args[1])>>, !.done = TRUE]
    /\ UNCHANGED <<coin_daily_data, analysis_results, special_nodes, last_call, run, prev_run>>

NextCalc == Interpolate \/ ChangePercentage \/ QualityRating

SpecCalc == InitCalc /\ [][NextCalc]_vars

(***************************************************************************)
(* reanalyze_date_range(start_date, end_date, coins): the old rows of the  *)
(* range are deleted, then every record of the range is analysed, by date  *)
(* and by asset; analyze_coin is also called outside the runs.             *)
(***************************************************************************)
MaxRunDate == 8
MaxRuns == 2
MaxRows == 1

ReanalyzeStart(start_date, end_date, coins) ==
    /\ run.pc = "idle"
    /\ run.count < MaxRuns
    /\ analysis_results' = delete_analysis_results(analysis_results, start_date, end_date)
    /\ special_nodes' = delete_special_nodes(special_nodes, start_date, end_date)
    /\ run' = [pc |-> "running", start_date |-> start_date, end_date |-> end_date,
               coins |-> coins,
               queue |-> group_by_date(get_data_in_range(start_date, end_date)),
               calls |-> <<>>, count |-> run.count + 1]
    /\ UNCHANGED <<coin_daily_data, last_call, prev_run, calc>>

\* a record of an asset that is not in the list is skipped
ReanalyzeSkip ==
    /\ run.pc = "running"
    /\ run.queue # <<>>
    /\ run.coins # AllCoins
    /\ Head(run.queue).coin \notin run.coins
    /\ run' = [run EXCEPT !.queue = Tail(run.queue)]
    /\ UNCHANGED <<coin_daily_data, analysis_results, special_nodes, last_call,
                   prev_run, calc>>

ReanalyzeCoin ==
    /\ run.pc = "running"
    /\ run.queue # <<>>
    /\ run.coins = AllCoins \/ Head(run.queue).coin \in run.coins
    /\ analyze_coin(Head(run.queue).coin, Head(run.queue).date)
    /\ run' = [run EXCEPT !.queue = Tail(run.queue),
                          !.calls = Append(run.calls, [coin |-> Head(run.queue).coin,
                                                       date |-> Head(run.queue).date])]
    /\ UNCHANGED <<coin_daily_data, prev_run, calc>>

\* The run returns; prev_run keeps the tables it leaves, beside the tables
\* the run before it left when that run had the same arguments and no call
\* was made in between.
ReanalyzeEnd ==
    /\ run.pc = "running"
    /\ run.queue = <<>>
    /\ run' = [run EXCEPT !.pc = "idle"]
    /\ prev_run' = [valid |-> TRUE,
                    start_date |-> run.start_date,
                    end_date |-> run.end_date,
                    coins |-> run.coins,
                    analysis_results |-> analysis_results,
                    special_nodes |-> special_nodes,
                    repeated |-> /\ prev_run.valid
                                 /\ prev_run.start_date = run.start_date
                                 /\ prev_run.end_date = run.end_date
                                 /\ prev_run.coins = run.coins,
                    previous_results |-> prev_run.analysis_results,
                    previous_nodes |-> prev_run.special_nodes]
    /\ UNCHANGED <<coin_daily_data, analysis_results, special_nodes, last_call, calc>>

\* a call outside the runs, while the result table is short
AnalyzeDirect(coin, date) ==
    /\ Len(analysis_results) < MaxRows
    /\ AnalyzeCoin(coin, date)

RunDates == 1..MaxRunDate
RunStarts == {1, 3, CheckCountCoin}
RunEnds == {2, CheckCountCoin, MaxRunDate}
CoinLists == {AllCoins, {"ALT"}}

\* An entry cycle of ALT whose break index stays under 200 and rises.
EntryRising ==
    {DailyRecord(d, "ALT", PhaseEnter, d, IF d < 3 THEN 980 ELSE 1020,
                 IF d <= 4 THEN 10 ELSE 100, 0, 0, 0) : d \in RunDates}

\* An exit cycle of ALT whose break index stays above 0.
ExitQuiet ==
    {DailyRecord(d, "ALT", PhaseExit, d, IF d < 3 THEN 1020 ELSE 980, 50, 0, 0,
                 IF d = 2 THEN 1 ELSE 0) : d \in RunDates}

\* Two entry cycles of ALT with crossings of 200.
EntryCrossings ==
    {DailyRecord(1, "ALT", PhaseEnter, 1, 900, 210, 0, 0, 0),
     DailyRecord(2, "ALT", PhaseEnter, 2, 1020, 190, 0, 0, 0),
     DailyRecord(3, "ALT", PhaseEnter, 3, 1090, 210, 0, 0, 0),
     DailyRecord(5, "ALT", PhaseEnter, 5, 980, 190, 0, 0, 1),
     DailyRecord(7, "ALT", PhaseExit, 1, 900, -10, 0, 0, 0),
     DailyRecord(8, "ALT", PhaseEnter, 1, 1020, 190, 0, 0, 0)}

\* The primary coin: an exit cycle with a crossing of 0.
RunBenchmark ==
    {DailyRecord(1, "BTC", PhaseExit, 1, 1000, -10, 0, 0, 0),
     DailyRecord(3, "BTC", PhaseExit, 3, 900, 100, 0, 0, 0),
     DailyRecord(7, "BTC", PhaseExit, 7, 1100, 100, 0, 0, 0)}

RunHistories ==
    {EntryRising, ExitQuiet, EntryCrossings, EntryRising \cup RunBenchmark,
     ExitQuiet \cup RunBenchmark, EntryCrossings \cup RunBenchmark}

InitRun ==
    /\ coin_daily_data \in RunHistories
    /\ analysis_results = <<>>
    /\ special_nodes = {}
    /\ last_call = NoCall
    /\ run = Idle
    /\ prev_run = NoRun
    /\ calc = NoCalc

NextRun ==
    \/ \E coin \in Coins, date \in RunDates : AnalyzeDirect(coin, date)
    \/ \E start_date \in RunStarts, end_date \in RunEnds, coins \in CoinLists :
          start_date <= end_date /\ ReanalyzeStart(start_date, end_date, coins)
    \/ ReanalyzeSkip
    \/ ReanalyzeCoin
    \/ ReanalyzeEnd

SpecRun == InitRun /\ [][NextRun]_vars

(***************************************************************************)
(* The benchmark chain: an asset with a reference on date 1 and a key node *)
(* on date 2, beside the records the equity benchmark, the primary coin    *)
(* and the leader assets have on date 2.  The asset is a small coin, the   *)
(* primary coin or a leader; its records carry every combination of the    *)
(* flags.  One analyze_coin call is made on each history.                  *)
(***************************************************************************)
\* The column is_cn_stock (INTEGER DEFAULT 0) of coin_daily_data, as set on
\* the records of a domestic-equity asset.
flag_cn_stock(record, is_cn_stock) == [record EXCEPT !.is_cn_stock = is_cn_stock]

BenchDates == {1, 2}
BenchAssets == {"ALT", "BTC", "ETH"}
Flags == {0, 1}
Absent == "absent"

\* <<phase, phase_days on date 2, break_index on date 1, break_index on date 2>>:
\* a second day 1 of either phase, and a crossing of 200
NodeShapes ==
    {<<PhaseEnter, 1, 100, 100>>, <<PhaseExit, 1, 100, 100>>, <<PhaseEnter, 2, 210, 190>>}

AssetRecords(coin, shape, is_dragon_leader, is_us_stock, is_cn_stock, approaching1, approaching2) ==
    {flag_cn_stock(DailyRecord(1, coin, shape[1], 1, 900, shape[3],
                               is_dragon_leader, is_us_stock, approaching1), is_cn_stock),
     flag_cn_stock(DailyRecord(2, coin, shape[1], shape[2], 1020, shape[4],
                               is_dragon_leader, is_us_stock, approaching2), is_cn_stock)}

\* the record a benchmark has on date 2, if it has one
BenchmarkOn(coin, phase_type, is_dragon_leader, is_us_stock) ==
    IF phase_type = Absent THEN {}
    ELSE {DailyRecord(2, coin, phase_type, 5, 1000, 100, is_dragon_leader, is_us_stock, 0)}

\* the records of the benchmarks on date 2; XRP is flagged as a leader
\* without being one of the weighted leaders
BenchmarkChains ==
    {BenchmarkOn("NASDAQ", nasdaq, 0, 1) \cup BenchmarkOn("BTC", btc, 0, 0)
        \cup BenchmarkOn("ETH", eth, 1, 0) \cup BenchmarkOn("BNB", bnb, 1, 0)
        \cup BenchmarkOn("SOL", sol, 1, 0) \cup BenchmarkOn("DOGE", doge, 1, 0)
        \cup BenchmarkOn("XRP", xrp, 1, 0) :
        nasdaq \in PhaseTypes \cup {Absent}, btc \in PhaseTypes \cup {Absent},
        eth \in PhaseTypes \cup {Absent}, bnb \in {PhaseExit, Absent},
        sol \in {PhaseEnter, Absent}, doge \in PhaseTypes \cup {Absent},
        xrp \in {PhaseExit, Absent}}

\* the small coin with every flag, the primary coin, and the leader ETH
BenchAssetRecords ==
    {AssetRecords("ALT", shape, leader, us, cn, a1, a2) :
        shape \in NodeShapes, leader \in Flags, us \in Flags, cn \in Flags,
        a1 \in Flags, a2 \in Flags}
    \cup {AssetRecords("BTC", shape, 0, 0, 0, 0, a2) : shape \in NodeShapes, a2 \in Flags}
    \cup {AssetRecords("ETH", shape, 1, 0, 0, 0, a2) : shape \in NodeShapes, a2 \in Flags}

\* the asset's own records replace the benchmark record of the same name
BenchHistories ==
    {asset \cup {b \in chain : \A r \in asset : b.coin # r.coin} :
        asset \in BenchAssetRecords, chain \in BenchmarkChains}

InitBench ==
    /\ coin_daily_data \in BenchHistories
    /\ analysis_results = <<>>
    /\ special_nodes = {}
    /\ last_call = NoCall
    /\ run = Idle
    /\ prev_run = NoRun
    /\ calc = NoCalc

NextBench == \E coin \in BenchAssets, date \in BenchDates : AnalyzeFirst(coin, date)

SpecBench == InitBench /\ [][NextBench]_vars

(***************************************************************************)
(* The store under repeated calls: analyze_coin is called again and again  *)
(* on the records of a history, and insert_special_node is called directly *)
(* with rows whose key a scan row or an earlier direct row may hold.       *)
(***************************************************************************)
MaxResults == 2

\* two rows with one key, the key of a row the scan inserts for ExitQuiet
DirectNodes ==
    {SpecialNode(2, "ALT", "approaching", [text |-> text, phase |-> PhaseExit, count |-> 0],
                 0, 0) : text \in {"first", "second"}}

\* insert_special_node(date, coin, node_type, description, offchain_index,
\* break_index), called directly; calc keeps the row of the call
InsertSpecialNode(row) ==
    /\ run.pc = "idle"
    /\ special_nodes' = insert_special_node(special_nodes, row)
    /\ calc' = [op |-> "insert", args |-> <<row>>, out |-> <<>>, done |-> TRUE]
    /\ UNCHANGED <<coin_daily_data, analysis_results, last_call, run, prev_run>>

\* analyze_coin(coin, date), called again while the result table is short
AnalyzeAgain(coin, date) ==
    /\ Len(analysis_results) < MaxResults
    /\ AnalyzeCoin(coin, date)

InitStore ==
    /\ coin_daily_data \in RunHistories
    /\ analysis_results = <<>>
    /\ special_nodes = {}
    /\ last_call = NoCall
    /\ run = Idle
    /\ prev_run = NoRun
    /\ calc = NoCalc

NextStore ==
    \/ \E coin \in Coins, date \in RunDates : AnalyzeAgain(coin, date)
    \/ \E row \in DirectNodes : InsertSpecialNode(row)

SpecStore == InitStore /\ [][NextStore]_vars

(***************************************************************************)
(* Entry cycles long enough for the quality warning: a coin with a record  *)
(* on each of the dates 1..MaxTrendDate and every course of the break      *)
(* index over three levels, and the equity benchmark with a record on each *)
(* of the dates 1..MaxStockDate whose break index changes level once.  One *)
(* analyze_coin call is made on each history.                              *)
(***************************************************************************)
MaxTrendDate == 8
MaxStockDate == 15

TrendDates == 1..MaxStockDate
TrendAssets == {"ALT", "NASDAQ"}
TrendBreaks == {10, 100, 210}

\* the entry cycles of a coin over the dates 1..n, day 1 on date 1
RECURSIVE TrendHistories(_, _)
TrendHistories(coin, n) ==
    IF n = 0 THEN {{}}
    ELSE {h \cup {DailyRecord(n, coin, PhaseEnter, n, 1000, b, 0, 0, 0)} :
            h \in TrendHistories(coin, n - 1), b \in TrendBreaks}

\* the entry cycles of the equity benchmark: one level up to date k, another after
StockHistories ==
    {{DailyRecord(d, "NASDAQ", PhaseEnter, d, 1000, IF d <= k THEN a ELSE b, 0, 1, 0) :
        d \in 1..MaxStockDate} :
        k \in 1..MaxStockDate, a \in TrendBreaks, b \in TrendBreaks}

InitTrend ==
    /\ coin_daily_data \in TrendHistories("ALT", MaxTrendDate) \cup StockHistories
    /\ analysis_results = <<>>
    /\ special_nodes = {}
    /\ last_call = NoCall
    /\ run = Idle
    /\ prev_run = NoRun
    /\ calc = NoCalc

NextTrend == \E coin \in TrendAssets, date \in TrendDates : AnalyzeFirst(coin, date)

SpecTrend == InitTrend /\ [][NextTrend]_vars

(***************************************************************************)
(* The lookups of MagDatabase on their own: one find_crossing_node or      *)
(* find_last_phase_node call is made on a short history of ALT, or on a    *)
(* long one that reaches the limit of get_coin_history.                    *)
(***************************************************************************)
LookupDates == 1..(MaxDate + 1) \cup {MaxDate + HistoryLimit + 1}
Directions == {"down", "up"}

LookupHistories ==
    Histories("ALT", MaxDate)
    \cup {h \cup QuietTail("ALT", n) :
            h \in LongHeads("ALT", 2), n \in {HistoryLimit - MaxDate, HistoryLimit}}

InitLookup ==
    /\ coin_daily_data \in LookupHistories
    /\ analysis_results = <<>>
    /\ special_nodes = {}
    /\ last_call = NoCall
    /\ run = Idle
    /\ prev_run = NoRun
    /\ calc = NoCalc

\* find_crossing_node(coin, before_date, threshold, cross_direction)
FindCrossing(coin, before_date, threshold, cross_direction) ==
    /\ calc = NoCalc
    /\ calc' = [op |-> "find_crossing",
                args |-> <<coin, before_date, threshold, cross_direction>>,
                out |-> <<find_crossing_node(coin, before_date, threshold, cross_direction)>>,
                done |-> TRUE]
    /\ UNCHANGED <<coin_daily_data, analysis_results, special_nodes, last_call, run, prev_run>>

\* find_last_phase_node(coin, phase_type, before_date)
FindLastPhase(coin, phase_type, before_date) ==
    /\ calc = NoCalc
    /\ calc' = [op |-> "find_last_phase",
                args |-> <<coin, phase_type, before_date>>,
                out |-> <<find_last_phase_node(coin, phase_type, before_date)>>,
                done |-> TRUE]
    /\ UNCHANGED <<coin_daily_data, analysis_results, special_nodes, last_call, run, prev_run>>

NextLookup ==
    \/ \E before_date \in LookupDates, threshold \in Thresholds, cross_direction \in Directions :
          FindCrossing("ALT", before_date, threshold, cross_direction)
    \/ \E phase_type \in PhaseTypes, before_date \in LookupDates :
          FindLastPhase("ALT", phase_type, before_date)

SpecLookup == InitLookup /\ [][NextLookup]_vars

(***************************************************************************)
(* The history of an asset, stated from the records alone.                 *)
(***************************************************************************)
RecordsOf(coin) == {r \in coin_daily_data : r.coin = coin}

\* p is the most recent record of r's asset dated before r
IsPrevious(p, r) ==
    /\ p.coin = r.coin
    /\ p.date < r.date
    /\ ~\E o \in coin_daily_data : o.coin = r.coin /\ p.date < o.date /\ o.date < r.date

HasPrevious(r) == \E p \in coin_daily_data : IsPrevious(p, r)
PreviousOf(r) == CHOOSE p \in coin_daily_data : IsPrevious(p, r)

\* r is a down-crossing of 200 / an up-crossing of 0 against its previous record
DownCrossing(r) ==
    HasPrevious(r) /\ PreviousOf(r).break_index >= 200 /\ r.break_index < 200
UpCrossing(r) ==
    HasPrevious(r) /\ PreviousOf(r).break_index < 0 /\ r.break_index >= 0

IsDay1(r, phase_type) == r.phase_type = phase_type /\ r.phase_days = 1

\* the latest record of a set, as a set of at most one record
Latest(S) == {r \in S : \A o \in S : o.date <= r.date}

\* The two candidates of the resolver for a node on date d, as the claim
\* states them: the last crossing before d with the value interpolated at
\* the threshold, and the last day-1 record before d with its recorded value.
EntrySideCandidates(coin, d) ==
    {[date |-> r.date,
      offchain_index |-> interpolate_offchain_index(
          PreviousOf(r).offchain_index, r.offchain_index,
          PreviousOf(r).break_index, r.break_index, 200),
      node_type |-> "break_200"] :
        r \in Latest({x \in RecordsOf(coin) : x.date < d /\ DownCrossing(x)})}
    \cup
    {[date |-> r.date, offchain_index |-> r.offchain_index, node_type |-> "enter_phase_day1"] :
        r \in Latest({x \in RecordsOf(coin) : x.date < d /\ IsDay1(x, PhaseEnter)})}

ExitSideCandidates(coin, d) ==
    {[date |-> r.date,
      offchain_index |-> interpolate_offchain_index(
          PreviousOf(r).offchain_index, r.offchain_index,
          PreviousOf(r).break_index, r.break_index, 0),
      node_type |-> "break_0"] :
        r \in Latest({x \in RecordsOf(coin) : x.date < d /\ UpCrossing(x)})}
    \cup
    {[date |-> r.date, offchain_index |-> r.offchain_index, node_type |-> "exit_phase_day1"] :
        r \in Latest({x \in RecordsOf(coin) : x.date < d /\ IsDay1(x, PhaseExit)})}

ClaimedCandidates(coin, d, node_type) ==
    IF node_type \in {"enter_phase_day1", "break_200"} THEN EntrySideCandidates(coin, d)
    ELSE ExitSideCandidates(coin, d)

Called == last_call # NoCall
CalledRecord == get_coin_data(last_call.coin, last_call.date)

(***************************************************************************)
(* C1.  Within one entry cycle the first BreakDown200 node resolves its    *)
(* reference to the date of the cycle's EnterDay1 record, and every later  *)
(* BreakDown200 node to the date of the down-crossing of 200 immediately   *)
(* before it.                                                              *)
(***************************************************************************)
C1_SubCycleAnchoring ==
    (Called /\ last_call.node_type = "break_200") =>
        LET starts == {r.date : r \in {x \in RecordsOf(last_call.coin) :
                                          x.date < last_call.date /\ IsDay1(x, PhaseEnter)}}
            crossings == {r.date : r \in {x \in RecordsOf(last_call.coin) :
                                             /\ x.date < last_call.date
                                             /\ x.date > Max(starts)
                                             /\ DownCrossing(x)}}
        IN  starts # {} =>
                /\ last_call.reference # NULL
                /\ last_call.reference.date =
                       IF crossings = {} THEN Max(starts) ELSE Max(crossings)

(***************************************************************************)
(* C2.  Re-analysing a date range twice in a row over unchanged            *)
(* DailyRecords, each run deleting the rows of the range and analysing     *)
(* every record of the range, leaves after the second run the same         *)
(* AnalysisResult rows and the same SpecialNode rows as after the first.   *)
(* The rows are compared in table order, by their columns.                 *)
(***************************************************************************)
C2_ReanalysisIdempotent ==
    (prev_run.repeated /\ prev_run.coins = AllCoins) =>
        /\ prev_run.analysis_results = prev_run.previous_results
        /\ prev_run.special_nodes = prev_run.previous_nodes

\* a range with result rows and special nodes was re-analysed twice in a row
C2_RepeatedRun ==
    /\ prev_run.repeated
    /\ prev_run.coins = AllCoins
    /\ \E i \in 1..Len(prev_run.analysis_results) :
          /\ prev_run.analysis_results[i].date >= prev_run.start_date
          /\ prev_run.analysis_results[i].date <= prev_run.end_date
    /\ \E node \in prev_run.special_nodes :
          /\ node.date >= prev_run.start_date
          /\ node.date <= prev_run.end_date
          /\ node.node_type \in {"quality_warning_entry", "quality_warning_exit"}

(***************************************************************************)
(* C3.  For each key-node type the resolver returns the candidate with the *)
(* greatest date among the candidates that exist (the last crossing and    *)
(* the last day-1 record before today), and nothing only when none exists. *)
(***************************************************************************)
C3_ResolverReturnsLatest ==
    (Called /\ last_call.node_type # NoNode) =>
        LET candidates == ClaimedCandidates(last_call.coin, last_call.date,
                                            last_call.node_type)
        IN  IF candidates = {} THEN last_call.reference = NULL
            ELSE /\ last_call.reference \in candidates
                 /\ \A c \in candidates : c.date <= last_call.reference.date

(***************************************************************************)
(* C4.  Detection returns EnterDay1 for an Entry record with phase_days 1, *)
(* else ExitDay1 for an Exit record with phase_days 1, else BreakDown200   *)
(* when the most recent earlier record has break_index >= 200 and today's  *)
(* is < 200, else BreakUp0 when it has break_index < 0 and today's is      *)
(* >= 0, else no node; a day-1 record that also crosses a threshold is     *)
(* reported as the day-1 type.                                             *)
(***************************************************************************)
ExpectedNode(r) ==
    IF IsDay1(r, PhaseEnter) THEN "enter_phase_day1"
    ELSE IF IsDay1(r, PhaseExit) THEN "exit_phase_day1"
    ELSE IF DownCrossing(r) THEN "break_200"
    ELSE IF UpCrossing(r) THEN "break_0"
    ELSE NoNode

C4_DetectionOrder ==
    (Called /\ CalledRecord # NULL) => last_call.node_type = ExpectedNode(CalledRecord)

\* a day-1 record that also crosses 200 downwards was reported as EnterDay1
C4_Day1OverCrossing ==
    /\ Called
    /\ CalledRecord # NULL
    /\ IsDay1(CalledRecord, PhaseEnter)
    /\ DownCrossing(CalledRecord)
    /\ PreviousOf(CalledRecord).date < CalledRecord.date - 1
    /\ last_call.node_type = "enter_phase_day1"

(***************************************************************************)
(* C5.  As stated: when the asset has no record dated before today's       *)
(* record, detection returns no node, whatever today's record contains.    *)
(***************************************************************************)
C5_NoPreviousNoNode ==
    (Called /\ CalledRecord # NULL /\ ~HasPrevious(CalledRecord)) =>
        last_call.node_type = NoNode

(***************************************************************************)
(* C5, as the code has it: when the asset has no record dated before       *)
(* today's record, detection returns EnterDay1 or ExitDay1 for a record    *)
(* with phase_days 1 (by its phase), and no node for every other record;   *)
(* it never returns a crossing node.                                       *)
(***************************************************************************)
C5_NoPreviousOnlyDay1 ==
    (Called /\ CalledRecord # NULL /\ ~HasPrevious(CalledRecord)) =>
        last_call.node_type =
            IF CalledRecord.phase_days # 1 THEN NoNode
            ELSE IF CalledRecord.phase_type = PhaseEnter THEN "enter_phase_day1"
            ELSE "exit_phase_day1"

\* the first record of an asset, a day 1, was detected as a day-1 node
C5_FirstRecordDay1 ==
    /\ Called
    /\ CalledRecord # NULL
    /\ ~HasPrevious(CalledRecord)
    /\ CalledRecord.phase_days = 1
    /\ last_call.node_type \in {"enter_phase_day1", "exit_phase_day1"}

(***************************************************************************)
(* C6.  analyze returns nothing and writes no AnalysisResult row when the  *)
(* asset has no record on the date, when no key node is detected, or when  *)
(* a key node is detected but no reference candidate exists.               *)
(***************************************************************************)
C6_AbsentWithoutRow ==
    (/\ Called
     /\ \/ CalledRecord = NULL
        \/ last_call.node_type = NoNode
        \/ ClaimedCandidates(last_call.coin, last_call.date, last_call.node_type) = {})
    => /\ last_call.result = NULL
       /\ analysis_results = <<>>

\* the first EnterDay1 of a history was analysed: a node without candidates
C6_FirstEnterDay1 ==
    /\ Called
    /\ last_call.node_type = "enter_phase_day1"
    /\ ClaimedCandidates(last_call.coin, last_call.date, last_call.node_type) = {}
    /\ last_call.result = NULL
    /\ analysis_results = <<>>

(***************************************************************************)
(* C8.  Every result analyze returns has final_percentage = change         *)
(* percentage + phase correction + divergence correction + break-index     *)
(* correction + approaching correction.                                    *)
(***************************************************************************)
C8_FinalIsSum ==
    (Called /\ last_call.result # NULL) =>
        LET r == last_call.result
        IN  r.final_percentage =
                QAdd(r.change_percentage,
                     QAdd(r.phase_correction,
                          QAdd(r.divergence_correction,
                               QAdd(r.break_index_correction, r.approaching_correction))))

\* a result with a divergence correction and an approaching correction
C8_EveryTermPresent ==
    /\ Called
    /\ last_call.result # NULL
    /\ last_call.result.divergence_correction # QZero
    /\ last_call.result.approaching_correction # QZero
    /\ last_call.result.change_percentage # QZero

(***************************************************************************)
(* C7.  For break values that straddle the threshold T the interpolator    *)
(* returns the integer nearest to                                          *)
(*   off_prev + (off_today - off_prev) * (T - break_prev)                  *)
(*                                     / (break_today - break_prev),       *)
(* a value between the two off-chain indices inclusive (1020 at 210 and    *)
(* 1090 at 190 give 1055 at 200); for equal break values it returns        *)
(* off_prev.                                                               *)
(***************************************************************************)
Straddles(break_prev, break_today, t) ==
    /\ break_prev # break_today
    /\ \/ (break_prev <= t /\ t <= break_today)
       \/ (break_today <= t /\ t <= break_prev)

Interpolated == calc.op = "interpolate" /\ calc.done

C7_InterpolationNearest ==
    Interpolated =>
        LET off_prev == calc.args[1]
            off_today == calc.args[2]
            break_prev == calc.args[3]
            break_today == calc.args[4]
            t == calc.args[5]
            out == calc.out[1]
            den == break_today - break_prev
            num == off_prev * den + (off_today - off_prev) * (t - break_prev)
        IN  /\ break_prev = break_today => out = off_prev
            /\ Straddles(break_prev, break_today, t) =>
                   /\ 2 * Abs(out * den - num) <= Abs(den)
                   /\ Min({off_prev, off_today}) <= out
                   /\ out <= Max({off_prev, off_today})
            /\ calc.args = <<1020, 1090, 210, 190, 200>> => out = 1055

\* a crossing whose exact interpolation is not an integer was interpolated
C7_FractionalCrossing ==
    /\ Interpolated
    /\ Straddles(calc.args[3], calc.args[4], calc.args[5])
    /\ ((calc.args[2] - calc.args[1]) * (calc.args[5] - calc.args[3]))
           % Abs(calc.args[4] - calc.args[3]) # 0
    /\ calc.out[1] # calc.args[1]
    /\ calc.out[1] # calc.args[2]

(***************************************************************************)
(* C9.  For every (reference, current) pair the Exit-phase base change and *)
(* phase correction are the negations of the Entry-phase ones: Entry gives *)
(* base = (current - reference) / reference * 100 and Exit its negation    *)
(* (900 -> 1100: +200/9 and +5 for Entry, -200/9 and -5 for Exit); base is *)
(* 0 when the reference is 0.                                              *)
(***************************************************************************)
Changed == calc.op = "change" /\ calc.done

C9_ExitNegatesEntry ==
    Changed =>
        LET ref_index == calc.args[1]
            current_index == calc.args[2]
            phase_type == calc.args[3]
            raw == IF ref_index = 0 THEN QZero
                   ELSE Q((current_index - ref_index) * 100, ref_index)
            opposite == IF phase_type = PhaseEnter THEN PhaseExit ELSE PhaseEnter
            other == calculate_change_percentage(ref_index, current_index, opposite)
        IN  /\ calc.out[1] = IF phase_type = PhaseEnter THEN raw ELSE QNeg(raw)
            /\ other[1] = QNeg(calc.out[1])
            /\ other[2] = -calc.out[2]
            /\ ref_index = 0 => calc.out[1] = QZero
            /\ calc.args = <<900, 1100, PhaseEnter>> => calc.out = <<Q(200, 9), 5>>
            /\ calc.args = <<900, 1100, PhaseExit>> => calc.out = <<Q(-200, 9), -5>>

\* the exit-phase change of 900 -> 1100 was computed
C9_ExitExample ==
    /\ Changed
    /\ calc.args = <<900, 1100, PhaseExit>>
    /\ calc.out = <<Q(-200, 9), -5>>

(***************************************************************************)
(* C10.  As stated: the phase-transition correction is non-zero exactly    *)
(* when the move crosses 1000 (reference < 1000 <= current, or current <   *)
(* 1000 <= reference); it is +5 for Entry upward, -5 for Entry downward,   *)
(* -5 for Exit upward, +5 for Exit downward, and 0 when both endpoints are *)
(* on the same side of 1000.                                               *)
(***************************************************************************)
MoveCrosses(ref_index, current_index) ==
    \/ (ref_index < 1000 /\ 1000 <= current_index)
    \/ (current_index < 1000 /\ 1000 <= ref_index)

ClaimedCorrection(ref_index, current_index, phase_type) ==
    IF ~MoveCrosses(ref_index, current_index) THEN 0
    ELSE IF phase_type = PhaseEnter
         THEN (IF current_index > ref_index THEN 5 ELSE -5)
         ELSE (IF current_index > ref_index THEN -5 ELSE 5)

C10_CorrectionExactlyOnCrossing ==
    Changed => calc.out[2] = ClaimedCorrection(calc.args[1], calc.args[2], calc.args[3])

(***************************************************************************)
(* C10, as the code has it: for a reference other than 0 the correction is *)
(* non-zero exactly when the move crosses 1000, with the signs as stated;  *)
(* for a reference of 0 the correction is 0, also when the current value   *)
(* is 1000 or more.                                                        *)
(***************************************************************************)
C10_CorrectionOnCrossingFromNonZero ==
    Changed =>
        calc.out[2] = IF calc.args[1] = 0 THEN 0
                      ELSE ClaimedCorrection(calc.args[1], calc.args[2], calc.args[3])

\* a move from 0 to 1000 or more was computed, without a correction
C10_FromZeroAcross ==
    /\ Changed
    /\ calc.args[1] = 0
    /\ calc.args[2] >= 1000
    /\ calc.out[2] = 0

(***************************************************************************)
(* C11.  An asset whose record is flagged domestic-equity or               *)
(* benchmark-equity always gets divergence correction 0 and an empty       *)
(* divergence breakdown, whatever the phases of the equity benchmark, the  *)
(* primary coin and the leaders on that date.                              *)
(***************************************************************************)
C11_EquityFlaggedNoDivergence ==
    (/\ Called
     /\ last_call.result # NULL
     /\ \/ CalledRecord.is_us_stock = 1
        \/ CalledRecord.is_cn_stock = 1)
    => /\ last_call.result.divergence_correction = QZero
       /\ last_call.result.divergence_details = {}

(***************************************************************************)
(* C12.  For an asset that is not equity-flagged the divergence correction *)
(* is the sum of the fixed weights of the benchmarks recorded on the same  *)
(* date whose phase differs from the asset's (equity benchmark -10,        *)
(* primary coin -5, leaders ETH -2.5, BNB -1.5, SOL -1.0, DOGE -0.5); the  *)
(* primary coin is not compared with itself or with leaders, a leader is   *)
(* not compared with leaders, a benchmark without a record on the date     *)
(* contributes nothing, and the breakdown holds exactly the contributing   *)
(* benchmarks, with weights that sum to the correction.                    *)
(***************************************************************************)
\* the fixed weights, in halves of a percent
HalfWeights ==
    [NASDAQ |-> -20, BTC |-> -10, ETH |-> -5, BNB |-> -3, SOL |-> -2, DOGE |-> -1]

\* the benchmarks an asset's record is compared with, as the claim names them
ComparedBenchmarks(r) ==
    {"NASDAQ"}
    \cup (IF r.coin # "BTC" THEN {"BTC"} ELSE {})
    \cup (IF r.coin # "BTC" /\ r.is_dragon_leader = 0 THEN {"ETH", "BNB", "SOL", "DOGE"} ELSE {})

\* the compared benchmarks that have a record on r's date in the other phase
\* (a leader counts when its record is flagged as leader)
Diverging(r) ==
    {name \in ComparedBenchmarks(r) :
        \E b \in coin_daily_data :
            /\ b.coin = name
            /\ b.date = r.date
            /\ b.phase_type # r.phase_type
            /\ name \in {"ETH", "BNB", "SOL", "DOGE"} => b.is_dragon_leader = 1}

RECURSIVE SumHalves(_)
SumHalves(names) ==
    IF names = {} THEN 0
    ELSE LET name == CHOOSE x \in names : TRUE
         IN  HalfWeights[name] + SumHalves(names \ {name})

NotEquityFlagged(r) == r.is_us_stock = 0 /\ r.is_cn_stock = 0

C12_DivergenceIsSumOfWeights ==
    (Called /\ last_call.result # NULL /\ NotEquityFlagged(CalledRecord)) =>
        LET r == last_call.result
            diverging == Diverging(CalledRecord)
        IN  /\ r.divergence_correction = Q(SumHalves(diverging), 2)
            /\ {d.name : d \in r.divergence_details} = diverging
            /\ Cardinality(r.divergence_details) = Cardinality(diverging)
            /\ \A d \in r.divergence_details : d.weight = Q(HalfWeights[d.name], 2)

\* a small coin in the entry phase with the equity benchmark, the primary
\* coin and three leaders in the exit phase: -10 - 5 - 2.5 - 1.5 - 0.5
C12_FiveBenchmarksDiverge ==
    /\ Called
    /\ last_call.result # NULL
    /\ NotEquityFlagged(CalledRecord)
    /\ Diverging(CalledRecord) = {"NASDAQ", "BTC", "ETH", "BNB", "DOGE"}
    /\ last_call.result.divergence_correction = Q(-39, 2)

(***************************************************************************)
(* C13.  The approaching correction of a result is -5 when the analysed    *)
(* day's record carries the is_approaching flag and 0 otherwise, whatever  *)
(* the node type and whatever the flag on any other record, the reference  *)
(* record included.                                                        *)
(***************************************************************************)
C13_ApproachingFromTodaysFlag ==
    (Called /\ last_call.result # NULL) =>
        last_call.result.approaching_correction =
            IF CalledRecord.is_approaching = 1 THEN QInt(-5) ELSE QZero

\* the reference record carries the flag and the analysed record does not
C13_FlagOnReferenceOnly ==
    /\ Called
    /\ last_call.result # NULL
    /\ CalledRecord.is_approaching = 0
    /\ get_coin_data(last_call.coin, last_call.result.reference_node_date).is_approaching = 1
    /\ last_call.result.approaching_correction = QZero

(***************************************************************************)
(* C14.  The quality tier is Excellent when the final percentage is > 5,   *)
(* Average when it is in [-5, 5] and Poor when it is < -5: exactly 5.0 and *)
(* exactly -5.0 are Average, 5.01 is Excellent and -5.01 is Poor.          *)
(***************************************************************************)
Rated == calc.op = "rating" /\ calc.done

C14_TierBoundaries ==
    Rated =>
        LET final == calc.args[1]
        IN  /\ calc.out[1] = (IF final.n > 5 * final.d THEN "Excellent"
                              ELSE IF final.n >= -5 * final.d THEN "Average"
                              ELSE "Poor")
            /\ final = QInt(5) => calc.out[1] = "Average"
            /\ final = QInt(-5) => calc.out[1] = "Average"
            /\ final = Q(501, 100) => calc.out[1] = "Excellent"
            /\ final = Q(-501, 100) => calc.out[1] = "Poor"

\* exactly 5.0 was rated
C14_ExactlyFive ==
    /\ Rated
    /\ calc.args[1] = QInt(5)
    /\ calc.out = <<"Average">>

(***************************************************************************)
(* C15.  After any sequence of insert_special_node calls and analyze calls *)
(* the store holds at most one SpecialNode row per (date, asset,           *)
(* node_type); a second insert with the same key raises no error and       *)
(* leaves the existing row, its description and values, unchanged.         *)
(***************************************************************************)
SameKey(a, b) == a.date = b.date /\ a.coin = b.coin /\ a.node_type = b.node_type

OneRowPerKey == \A a \in special_nodes : \A b \in special_nodes : SameKey(a, b) => a = b

\* every stored row is still stored, as it is, after the step
RowsKept == \A o \in special_nodes : o \in special_nodes'

C15_SpecialNodeUnique == []OneRowPerKey /\ [][RowsKept]_vars

\* a direct insert found its key taken: the row of the call is not stored,
\* the row that held the key is
C15_SecondInsertIgnored ==
    /\ calc.op = "insert"
    /\ calc.args[1] \notin special_nodes
    /\ \E o \in special_nodes : SameKey(o, calc.args[1])

(***************************************************************************)
(* C16.  After any sequence of analyze calls and date-range re-analysis    *)
(* runs the store holds at most one AnalysisResult row per (date, asset).  *)
(***************************************************************************)
C16_OneResultPerDateAsset ==
    \A i \in 1..Len(analysis_results) : \A j \in 1..Len(analysis_results) :
        (/\ analysis_results[i].date = analysis_results[j].date
         /\ analysis_results[i].coin = analysis_results[j].coin) => i = j

(***************************************************************************)
(* C17.  The section number of a result is 1 for EnterDay1 and ExitDay1    *)
(* nodes; for a BreakDown200 (BreakUp0) node it is count + 1, where count  *)
(* is the number of down-crossings of 200 (up-crossings of 0) between      *)
(* consecutive records of the asset from the most recent Entry (Exit)      *)
(* day-1 record before today up to and including today: the k-th crossing  *)
(* of a cycle is labelled sub-cycle k + 1.                                 *)
(***************************************************************************)
\* the day-1 records of the phase dated before d
Day1Before(coin, d, phase_type) ==
    {r \in RecordsOf(coin) : r.date < d /\ IsDay1(r, phase_type)}

\* the crossings of the kind after the record of date from, up to date to
DownCrossingsIn(coin, from, to) ==
    Cardinality({r \in RecordsOf(coin) : from < r.date /\ r.date <= to /\ DownCrossing(r)})
UpCrossingsIn(coin, from, to) ==
    Cardinality({r \in RecordsOf(coin) : from < r.date /\ r.date <= to /\ UpCrossing(r)})

\* the section number the claim gives the node of the last call; the cycle
\* starts at the latest day-1 record of the phase before today
ClaimedSection ==
    LET coin == last_call.coin
        d == last_call.date
    IN  IF last_call.node_type = "break_200"
        THEN DownCrossingsIn(coin, Max({r.date : r \in Day1Before(coin, d, PhaseEnter)}), d) + 1
        ELSE IF last_call.node_type = "break_0"
        THEN UpCrossingsIn(coin, Max({r.date : r \in Day1Before(coin, d, PhaseExit)}), d) + 1
        ELSE 1

\* the cycle the claim counts in has a start
InCycle ==
    /\ last_call.node_type = "break_200" => Day1Before(last_call.coin, last_call.date, PhaseEnter) # {}
    /\ last_call.node_type = "break_0" => Day1Before(last_call.coin, last_call.date, PhaseExit) # {}

C17_SectionNumber ==
    (Called /\ last_call.result # NULL /\ InCycle) =>
        last_call.result.section_num = ClaimedSection

(***************************************************************************)
(* C18.  A re-analysis run deletes the range's AnalysisResult and          *)
(* SpecialNode rows before its first analyze call, and then calls analyze  *)
(* for each asset in strictly ascending date order: within one run no      *)
(* analyze call for a date follows a call for a later date of the same     *)
(* asset.                                                                  *)
(***************************************************************************)
InRunRange(row) == run.start_date <= row.date /\ row.date <= run.end_date

\* the run has analysed the record the row is about
FromThisRun(row) ==
    \E i \in 1..Len(run.calls) : run.calls[i].coin = row.coin /\ run.calls[i].date = row.date

C18_DeleteThenAscending ==
    run.pc = "running" =>
        /\ \A i \in 1..Len(run.calls) : \A j \in 1..Len(run.calls) :
              (i < j /\ run.calls[i].coin = run.calls[j].coin)
                  => run.calls[i].date < run.calls[j].date
        /\ \A k \in 1..Len(analysis_results) :
              InRunRange(analysis_results[k]) => FromThisRun(analysis_results[k])
        /\ \A row \in special_nodes : InRunRange(row) => FromThisRun(row)

\* a second run is under way over a range that held rows of both tables: it
\* has analysed two assets, one of them on three dates, and stored a result
C18_SecondRunUnderWay ==
    /\ run.pc = "running"
    /\ run.count = 2
    /\ \E i \in 1..Len(run.calls) : run.calls[i].coin = "BTC"
    /\ Cardinality({i \in 1..Len(run.calls) : run.calls[i].coin = "ALT"}) >= 3
    /\ \E k \in 1..Len(analysis_results) : InRunRange(analysis_results[k])
    /\ prev_run.valid
    /\ \E row \in prev_run.special_nodes : InRunRange(row)
    /\ \E k \in 1..Len(prev_run.analysis_results) : InRunRange(prev_run.analysis_results[k])

(***************************************************************************)
(* C19.  The quality_warning_entry event is emitted for an Entry-phase     *)
(* record exactly when no warning of that type already exists in the       *)
(* current sub-cycle, the number of the asset's records from the sub-cycle *)
(* start to today inclusive equals N (7, or 14 when the record is flagged  *)
(* benchmark-equity), none of those records has break_index >= 200, and    *)
(* the trend is declining: the average break value of the chronologically  *)
(* later part is lower than the average of the chronologically earlier     *)
(* part, the values being split at floor(count / 2).                       *)
(***************************************************************************)
\* the start of the entry sub-cycle the record r lies in: the latest Entry
\* day-1 record or down-crossing of 200 up to r
EntrySubCycleStarts(r) ==
    {x.date : x \in {o \in RecordsOf(r.coin) :
                        o.date <= r.date /\ (IsDay1(o, PhaseEnter) \/ DownCrossing(o))}}

\* the records of the sub-cycle up to r
EntrySubCycle(r) ==
    {o \in RecordsOf(r.coin) : Max(EntrySubCycleStarts(r)) <= o.date /\ o.date <= r.date}

RECURSIVE SumOfBreaks(_)
SumOfBreaks(S) ==
    IF S = {} THEN 0
    ELSE LET r == CHOOSE x \in S : TRUE
         IN  r.break_index + SumOfBreaks(S \ {r})

\* the earlier part: the floor(count / 2) earliest records of S
EarlierPart(S) ==
    {r \in S : Cardinality({o \in S : o.date < r.date}) < Cardinality(S) \div 2}

\* average of the later part < average of the earlier part
DecliningTrend(S) ==
    LET earlier == EarlierPart(S)
        later == S \ earlier
    IN  /\ earlier # {}
        /\ SumOfBreaks(later) * Cardinality(earlier)
              < SumOfBreaks(earlier) * Cardinality(later)

\* the conditions of the claim for the record r; no warning is stored
\* before the first call on a history
EntryWarningDue(r) ==
    /\ r.phase_type = PhaseEnter
    /\ EntrySubCycleStarts(r) # {}
    /\ Cardinality(EntrySubCycle(r)) = (IF r.is_us_stock = 1 THEN 14 ELSE 7)
    /\ \A o \in EntrySubCycle(r) : o.break_index < 200
    /\ DecliningTrend(EntrySubCycle(r))

EntryWarningEmitted ==
    \E row \in special_nodes : /\ row.coin = last_call.coin
                               /\ row.date = last_call.date
                               /\ row.node_type = "quality_warning_entry"

C19_EntryWarningExactlyWhenDeclining ==
    (Called /\ CalledRecord # NULL /\ CalledRecord.phase_type = PhaseEnter) =>
        (EntryWarningEmitted <=> EntryWarningDue(CalledRecord))

(***************************************************************************)
(* C20.  After any run that analyses an asset's records in ascending date  *)
(* order, each sub-cycle of the asset (the dates from one sub-cycle start, *)
(* i.e. a phase day-1 record or a crossing of the phase's anchoring        *)
(* threshold, up to but excluding the next start) contains at most one     *)
(* quality_warning_entry row and at most one quality_warning_exit row.     *)
(***************************************************************************)
QualityWarnings == {"quality_warning_entry", "quality_warning_exit"}

\* the record o starts a sub-cycle of the phase the warning belongs to
SubCycleStart(o, node_type) ==
    IF node_type = "quality_warning_entry"
    THEN IsDay1(o, PhaseEnter) \/ DownCrossing(o)
    ELSE IsDay1(o, PhaseExit) \/ UpCrossing(o)

\* no sub-cycle of the asset starts after the date from, up to the date to
SameSubCycle(coin, node_type, from, to) ==
    ~\E o \in RecordsOf(coin) :
        from < o.date /\ o.date <= to /\ SubCycleStart(o, node_type)

AfterRun == run.pc = "idle" /\ prev_run.valid

ThresholdEvents == {"offchain_above_1000", "offchain_below_1000", "break_above_200"}
ScanEvents == ThresholdEvents \cup {"approaching"}

\* the condition of the event on the record r
EventHolds(r, node_type) ==
    CASE node_type = "approaching" -> r.is_approaching = 1
      [] node_type = "offchain_above_1000" ->
            HasPrevious(r) /\ PreviousOf(r).offchain_index < 1000 /\ 1000 <= r.offchain_index
      [] node_type = "offchain_below_1000" ->
            HasPrevious(r) /\ PreviousOf(r).offchain_index >= 1000 /\ 1000 > r.offchain_index
      [] node_type = "break_above_200" ->
            HasPrevious(r) /\ PreviousOf(r).break_index < 200 /\ 200 <= r.break_index

\* a row of the type is stored for the record of the last call
EventStored(node_type) ==
    \E row \in special_nodes : /\ row.coin = last_call.coin
                               /\ row.date = last_call.date
                               /\ row.node_type = node_type

(***************************************************************************)
(* C21.  For every analyze(asset, date) call on an existing record, the    *)
(* special-node scan runs and persists its events before key-node          *)
(* detection, so the SpecialNode rows whose conditions hold are written    *)
(* also when analyze returns absent because no key node fired or no        *)
(* reference candidate exists; no SpecialNode is written when the record   *)
(* itself is missing.                                                      *)
(***************************************************************************)
C21_ScanBeforeDetection ==
    Called =>
        IF CalledRecord = NULL THEN special_nodes = {}
        ELSE \A node_type \in ScanEvents :
                EventHolds(CalledRecord, node_type) => EventStored(node_type)

\* the call found no key node and returned nothing, and the scan stored an event
C21_EventWithoutKeyNode ==
    /\ Called
    /\ CalledRecord # NULL
    /\ last_call.node_type = NoNode
    /\ last_call.result = NULL
    /\ \E node_type \in ScanEvents : EventStored(node_type)

(***************************************************************************)
(* C22.  For a record that has an earlier record of the same asset, the    *)
(* scanner emits offchain_above_1000 exactly when the previous off-chain   *)
(* index < 1000 <= today's, offchain_below_1000 exactly when the previous  *)
(* >= 1000 > today's, and break_above_200 exactly when the previous        *)
(* break_index < 200 <= today's; it emits approaching exactly when the     *)
(* record carries the is_approaching flag; the three threshold events are  *)
(* never emitted when no earlier record exists, and offchain_above_1000    *)
(* and offchain_below_1000 are never both emitted for the same (date,      *)
(* asset).                                                                 *)
(***************************************************************************)
C22_ScanEvents ==
    (Called /\ CalledRecord # NULL) =>
        /\ \A node_type \in ScanEvents :
              EventStored(node_type) <=> EventHolds(CalledRecord, node_type)
        /\ ~HasPrevious(CalledRecord) =>
              \A node_type \in ThresholdEvents : ~EventStored(node_type)
        /\ \A a \in special_nodes : \A b \in special_nodes :
              (a.date = b.date /\ a.coin = b.coin)
                 => ~(a.node_type = "offchain_above_1000" /\ b.node_type = "offchain_below_1000")

\* the previous record is two days back and the off-chain index has risen
\* through 1000 since; the event is stored
C22_CrossingOverAGap ==
    /\ Called
    /\ CalledRecord # NULL
    /\ HasPrevious(CalledRecord)
    /\ PreviousOf(CalledRecord).date < CalledRecord.date - 1
    /\ EventStored("offchain_above_1000")

(***************************************************************************)
(* C23.  find_crossing(asset, before_date, T, direction) returns the       *)
(* latest date d < before_date such that the record on d and the asset's   *)
(* most recent record before d straddle T in the given direction (down:    *)
(* previous >= T and current < T; up: previous < T and current >= T),      *)
(* together with the off-chain index interpolated at T between those two   *)
(* records; it returns absent when no such pair exists, and records dated  *)
(* on or after before_date never affect the result.                        *)
(***************************************************************************)
\* r and its previous record straddle T in the direction
StraddlesPrevious(r, T, direction) ==
    /\ HasPrevious(r)
    /\ IF direction = "down"
       THEN PreviousOf(r).break_index >= T /\ r.break_index < T
       ELSE PreviousOf(r).break_index < T /\ r.break_index >= T

\* the crossings of the asset dated before before_date
CrossingsBefore(coin, before_date, T, direction) ==
    {r \in RecordsOf(coin) : r.date < before_date /\ StraddlesPrevious(r, T, direction)}

LatestOf(S) == CHOOSE r \in S : \A o \in S : o.date <= r.date

\* the answer of the claim
LatestCrossing(coin, before_date, T, direction) ==
    LET found == CrossingsBefore(coin, before_date, T, direction)
    IN  IF found = {} THEN NULL
        ELSE [date |-> LatestOf(found).date,
              offchain_index |-> interpolate_offchain_index(
                  PreviousOf(LatestOf(found)).offchain_index, LatestOf(found).offchain_index,
                  PreviousOf(LatestOf(found)).break_index, LatestOf(found).break_index, T)]

C23_FindCrossingLatestBefore ==
    (calc.op = "find_crossing" /\ calc.done) =>
        calc.out[1] = LatestCrossing(calc.args[1], calc.args[2], calc.args[3], calc.args[4])

\* a crossing is returned although a later crossing of the same kind is
\* dated on or after before_date
C23_LaterCrossingIgnored ==
    /\ calc.op = "find_crossing"
    /\ calc.done
    /\ calc.out[1] # NULL
    /\ \E r \in RecordsOf(calc.args[1]) :
          r.date >= calc.args[2] /\ StraddlesPrevious(r, calc.args[3], calc.args[4])

(***************************************************************************)
(* C24.  find_last_phase_day1(asset, phase_type, before_date) returns the  *)
(* date and recorded off-chain index of the latest record of the asset     *)
(* with date < before_date, the given phase type and phase_days = 1, and   *)
(* returns absent only when the asset has no such record, however many     *)
(* records of the asset are dated on or after before_date.                 *)
(***************************************************************************)
Day1RecordsBefore(coin, phase_type, before_date) ==
    {r \in RecordsOf(coin) : r.date < before_date /\ IsDay1(r, phase_type)}

LatestDay1(coin, phase_type, before_date) ==
    LET found == Day1RecordsBefore(coin, phase_type, before_date)
    IN  IF found = {} THEN NULL
        ELSE [date |-> LatestOf(found).date,
              offchain_index |-> LatestOf(found).offchain_index]

C24_FindLastPhaseDay1 ==
    (calc.op = "find_last_phase" /\ calc.done) =>
        calc.out[1] = LatestDay1(calc.args[1], calc.args[2], calc.args[3])

(***************************************************************************)
(* C25.  The AnalysisResult that analyze(asset, date) returns is           *)
(* determined by the DailyRecords alone: for the same set of DailyRecords  *)
(* it is the same whatever AnalysisResult and SpecialNode rows already     *)
(* exist, in whatever order other dates and other assets were analysed     *)
(* before, and in whatever order the DailyRecords were inserted.           *)
(***************************************************************************)
\* the row a call on the asset and date would store now
RowNow(coin, date) == save_analysis_result(<<>>, analyze(coin, date).result)[1]

ResultsOutside(table, coins) == SelectSeq(table, LAMBDA row : row.coin \notin coins)
NodesOutside(table, coins) == {row \in table : row.coin \notin coins}

\* a step of a run restricted to a list: its start, a call or a skip
RestrictedRunStep == run'.pc = "running" /\ run'.coins # AllCoins

OtherAssetsUntouched ==
    RestrictedRunStep =>
        /\ ResultsOutside(analysis_results', run'.coins)
              = ResultsOutside(analysis_results, run'.coins)
        /\ NodesOutside(special_nodes', run'.coins) = NodesOutside(special_nodes, run'.coins)

RecordsUntouched == (run.pc = "running" \/ run'.pc = "running") => coin_daily_data' = coin_daily_data

C26_RunTouchesListedAssetsOnly == [][OtherAssetsUntouched /\ RecordsUntouched]_vars

(***************************************************************************)
(* C27.  Whenever an AnalysisResult has a reference of type BreakDown200   *)
(* (BreakUp0) on date d1 and the same asset has an AnalysisResult of node  *)
(* type BreakDown200 (BreakUp0) for date d1 computed from the same         *)
(* DailyRecords, the later result's reference off-chain value equals the   *)
(* earlier result's current (interpolated) off-chain value; for EnterDay1  *)
(* and ExitDay1 nodes the current value is the recorded off-chain index,   *)
(* not an interpolation.                                                   *)
(***************************************************************************)
CrossingTypes == {"break_200", "break_0"}
Day1Types == {"enter_phase_day1", "exit_phase_day1"}

\* the analysis of the reference date of the last result, on the same records
ReferenceAnalysis == analyze(last_call.coin, last_call.result.reference_node_date)

\* the reference date has a result of the reference's crossing type
ReferenceIsAnalysedCrossing ==
    /\ Called
    /\ last_call.result # NULL
    /\ last_call.result.reference_node_type \in CrossingTypes
    /\ ReferenceAnalysis.result # NULL
    /\ ReferenceAnalysis.node_type = last_call.result.reference_node_type

C27_ReferenceValueIsNodeValue ==
    /\ ReferenceIsAnalysedCrossing =>
          last_call.result.reference_offchain_index
              = ReferenceAnalysis.result.current_offchain_index
    /\ (Called /\ last_call.result # NULL /\ last_call.node_type \in Day1Types) =>
          last_call.result.current_offchain_index = CalledRecord.offchain_index

\* the reference is an up-crossing of 0 that has a result of its own, and
\* its interpolated value is not the value recorded on its date
C27_InterpolatedReference ==
    /\ ReferenceIsAnalysedCrossing
    /\ last_call.result.reference_node_type = "break_0"
    /\ last_call.result.reference_offchain_index
          # get_coin_data(last_call.coin, last_call.result.reference_node_date).offchain_index

(***************************************************************************)
(* C28.  When the crossing candidate and the phase day-1 candidate of the  *)
(* resolver fall on the same date (a day-1 record whose break_index also   *)
(* crosses the threshold against its previous record), the resolver        *)
(* selects the crossing candidate: the reference type is BreakDown200      *)
(* (BreakUp0) and the reference value is the interpolated off-chain index, *)
(* not the recorded one.                                                   *)
(***************************************************************************)
EntryNodes == {"enter_phase_day1", "break_200"}

\* the two candidates of the last call, from the records alone
CrossingCandidate ==
    IF last_call.node_type \in EntryNodes
    THEN LatestCrossing(last_call.coin, last_call.date, 200, "down")
    ELSE LatestCrossing(last_call.coin, last_call.date, 0, "up")

Day1Candidate ==
    LatestDay1(last_call.coin,
               IF last_call.node_type \in EntryNodes THEN PhaseEnter ELSE PhaseExit,
               last_call.date)

CandidatesTie ==
    /\ Called
    /\ last_call.node_type # NoNode
    /\ CrossingCandidate # NULL
    /\ Day1Candidate # NULL
    /\ CrossingCandidate.date = Day1Candidate.date

C28_TieGoesToCrossing ==
    CandidatesTie =>
        /\ last_call.reference # NULL
        /\ last_call.reference.date = CrossingCandidate.date
        /\ last_call.reference.node_type
              = (IF last_call.node_type \in EntryNodes THEN "break_200" ELSE "break_0")
        /\ last_call.reference.offchain_index = CrossingCandidate.offchain_index

\* the two candidates tie and the interpolated value is not the recorded one
C28_TieWithInterpolation ==
    /\ CandidatesTie
    /\ last_call.result # NULL
    /\ CrossingCandidate.offchain_index # Day1Candidate.offchain_index

(***************************************************************************)
(* C29.  Every AnalysisResult has a reference date strictly earlier than   *)
(* its own date, and a DailyRecord of the same asset exists on that        *)
(* reference date.                                                         *)
(***************************************************************************)
ReferenceEarlierAndRecorded(row) ==
    /\ row.reference_node_date < row.date
    /\ \E r \in RecordsOf(row.coin) : r.date = row.reference_node_date

C29_ReferenceEarlierRecord ==
    /\ \A k \in 1..Len(analysis_results) : ReferenceEarlierAndRecorded(analysis_results[k])
    /\ (Called /\ last_call.result # NULL) => ReferenceEarlierAndRecorded(last_call.result)

\* a stored result of a day-1 node whose reference lies at least two
\* records back
C29_ReferenceTwoRecordsBack ==
    /\ Len(analysis_results) >= 1
    /\ analysis_results[1].node_type \in Day1Types
    /\ \E r \in RecordsOf(analysis_results[1].coin) :
          /\ analysis_results[1].reference_node_date < r.date
          /\ r.date < analysis_results[1].date

(***************************************************************************)
(* C30.  Every AnalysisResult row persisted by save carries each           *)
(* correction term of the result, so that in the stored row                *)
(* final_percentage equals the sum of the stored change percentage, phase  *)
(* correction, divergence correction, break-index correction and           *)
(* approaching correction.                                                 *)
(***************************************************************************)
StoredTerms ==
    {"change_percentage", "phase_correction", "divergence_correction",
     "break_index_correction", "approaching_correction"}

\* the sum of the terms the row stores, without the divergence correction
SumOfStoredTerms(row) ==
    QAdd(QAdd(row.change_percentage, row.phase_correction),
         QAdd(QAdd(row.us_stock_correction, row.break_index_correction),
              row.approaching_correction))

C30_StoredRowCarriesTerms ==
    \A k \in 1..Len(analysis_results) :
        /\ StoredTerms \subseteq DOMAIN analysis_results[k]
        /\ analysis_results[k].final_percentage
              = QAdd(SumOfStoredTerms(analysis_results[k]),
                     analysis_results[k].divergence_correction)

=============================================================================
